---- MODULE Spec2Model ----
(***************************************************************************)
(* Titanic passenger clustering: the K-means engine, the silhouette score  *)
(* and the preprocessing pipeline (feature engineering, imputation,        *)
(* one-hot encoding, standardization).                                     *)
(*                                                                         *)
(* Numbers.  Data matrices hold integers.  A centroid is a vector of       *)
(* rationals with one common denominator (the count it was divided by).    *)
(* A Euclidean distance sqrt(q) is carried as its exact radicand q, a      *)
(* rational; Math.sqrt is monotone, so distances are compared by comparing *)
(* radicands.  Where a distance enters a sum (inertia, silhouette) its     *)
(* value is taken in fixed point, in units of 1/Scale, rounded down.       *)
(***************************************************************************)
EXTENDS Integers, Sequences, FiniteSets, TLC

VARIABLES
    pc,             \* position of the running operation
    data,           \* the numeric matrix handed to performKMeans / silhouette
    k,              \* requested cluster count
    maxIterations,  \* iteration cap of performKMeans
    centroids,      \* sequence of centroids, centroids[j+1] is centroid j
    labels,         \* labels[i] in 0..k-1 is the cluster of row i
    iterations,     \* loop counter of performKMeans
    changed,        \* loop flag of performKMeans
    inertia,        \* returned inertia, fixed point
    picked,         \* history: row indices chosen by initializeCentroids
    score,          \* value returned by calculateSilhouetteScore, fixed point
    terms,          \* history: the per-point silhouette coefficients
    rawData,        \* the records handed to preprocessData
    out,            \* the value returned by preprocessData, with its intermediate results
    numComponents,  \* the component count handed to performPCA
    pca,            \* the locals and the result of performPCA
    opt,            \* the locals and the result of findOptimalK
    ui              \* the state of the page: Index, DataPreprocessing, PCAAnalysis

vars == <<pc, data, k, maxIterations, centroids, labels, iterations, changed,
          inertia, picked, score, terms, rawData, out, numComponents, pca, opt, ui>>

(* the variables of the PCA call *)
pcaVars == <<numComponents, pca>>

(* the variables of the findOptimalK call *)
optVars == <<opt>>

(* the state of the components of the page *)
uiVars == <<ui>>

(* the variables of the silhouette call *)
silVars == <<score, terms>>

(* the variables of the preprocessing call *)
preVars == <<rawData, out>>

(* the variables of the K-means call *)
kmVars == <<data, k, maxIterations, centroids, labels, iterations, changed, inertia, picked>>

----------------------------------------------------------------------------
(* Bounds *)

MaxRows == 3
MaxDim == 2
MaxCoord == 1
MaxK == 3
MaxIter == 3
MaxRecords == 3
MaxSweep == 5

(* Fixed-point unit: a value v stands for v / Scale *)
Scale == 100

----------------------------------------------------------------------------
(* Arithmetic helpers *)

(* no preprocessing result yet *)
NoOutput == [ready |-> FALSE]

(* no performPCA call: nothing computed, nothing returned *)
NoPCA == [ready |-> FALSE]

(* no findOptimalK call *)
NoSweep == [running |-> FALSE, ready |-> FALSE]

(* the page before any file is loaded: Index has no records and no processed *)
(* data, DataPreprocessing is idle, PCAAnalysis has not run                  *)
NoUI ==
    [rawData |-> <<>>, processedData |-> NoOutput,
     isProcessing |-> FALSE, progress |-> 0, step |-> 0, captured |-> <<>>,
     result |-> NoOutput, hasRunPCA |-> FALSE, explainedVariance |-> <<>>]

(* numComponents?: the argument was left out *)
Unspecified == [given |-> FALSE, n |-> 0]

(* numComponents given as n *)
Requested(n) == [given |-> TRUE, n |-> n]

(* division of fixed-point values, rounding toward zero *)
Quot(a, b) == IF a >= 0 THEN a \div b ELSE 0 - ((0 - a) \div b)

Range(s) == {s[i] : i \in DOMAIN s}

(* sum of a sequence of integers *)
SumSeq[s \in Seq(Int)] == IF s = <<>> THEN 0 ELSE s[1] + SumSeq[Tail(s)]

(* binary search for the integer square root; t = <<x, lo, hi>> *)
ISqrtSearch[t \in Nat \X Nat \X Nat] ==
    IF t[2] >= t[3] THEN t[2]
    ELSE LET mid == (t[2] + t[3] + 1) \div 2
         IN IF mid * mid <= t[1] THEN ISqrtSearch[<<t[1], mid, t[3]>>]
                              ELSE ISqrtSearch[<<t[1], t[2], mid - 1>>]

(* floor of the square root of a natural number *)
ISqrt(x) == ISqrtSearch[<<x, 0, IF x < 46340 THEN x ELSE 46340>>]

(* a rational vector: numerators over one common denominator *)
Vec(row) == [num |-> row, den |-> 1]

(* the distance "Infinity": greater than every finite distance *)
Infinity == [num |-> 1, den |-> 0]

(* d1 < d2 on distances carried as radicands *)
DistLess(d1, d2) == d1.num * d2.den < d2.num * d1.den

DistMin(d1, d2) == IF DistLess(d2, d1) THEN d2 ELSE d1

(* Math.sqrt of a radicand, in fixed point *)
Sqrt(q) == ISqrt((q.num * Scale * Scale) \div q.den)

(* euclideanDistance(a, b): sqrt of the sum of squared differences, as radicand *)
euclideanDistance(a, b) ==
    [num |-> SumSeq[[i \in 1..Len(a.num) |->
                        (a.num[i] * b.den - b.num[i] * a.den)
                      * (a.num[i] * b.den - b.num[i] * a.den)]],
     den |-> (a.den * b.den) * (a.den * b.den)]

----------------------------------------------------------------------------
(* Inputs *)

Coord == 0..MaxCoord

MatricesOf(n, d) == [1..n -> [1..d -> Coord]]

Matrices == UNION {MatricesOf(n, d) : n \in 0..MaxRows, d \in 0..MaxDim}

(* the four 2-D points of the end-to-end scenario *)
ScenarioMatrix == << <<0, 0>>, <<0, 1>>, <<10, 0>>, <<10, 1>> >>

----------------------------------------------------------------------------
(* K-means: initializeCentroids *)

Rows == IF data = <<>> THEN 0 ELSE Len(data)
Cols == IF data = <<>> THEN 0 ELSE Len(data[1])

(* distance of a point to the nearest centroid chosen so far *)
RECURSIVE NearestSeedDistance(_, _, _)
NearestSeedDistance(point, cs, minDistance) ==
    IF cs = <<>> THEN minDistance
    ELSE NearestSeedDistance(point, Tail(cs),
                             DistMin(minDistance, euclideanDistance(point, Head(cs))))

(* minDistance * minDistance: the radicand itself; seeds are data rows, so it is an integer *)
Squared(d) == d.num \div d.den

(* distances[i]: squared distance of row i to its nearest chosen centroid *)
SeedDistances(cs) ==
    [i \in 1..Rows |-> Squared(NearestSeedDistance(Vec(data[i]), cs, Infinity))]

(* cumulative sums of the distances; cumulativeProb after row j is Cumulative[j] / sum *)
Cumulative(ds) == [j \in 1..Len(ds) |-> SumSeq[SubSeq(ds, 1, j)]]

(* Math.random() draws r in [0,1).  A draw is carried as the numerator rn of    *)
(* r = rn / (2 * sum); one draw is taken in every cell of [0,1) cut at the       *)
(* cumulative probabilities: 0, every cut point below 1, and a value above the  *)
(* last cut point below 1.                                                      *)
RandomDraws(cum, sum) ==
    {0} \cup {2 * c : c \in {x \in Range(cum) : x < sum}} \cup {2 * sum - 1}

(* r <= cumulativeProb, cumulativeProb = c / sum *)
DrawAtMost(rn, c) == rn <= 2 * c

(* the selection loop: first row j (0-based) with r <= cumulativeProb, else 0 *)
SelectIndex(rn, cum) ==
    IF \E j \in 1..Len(cum) : DrawAtMost(rn, cum[j])
    THEN (CHOOSE j \in 1..Len(cum) :
             /\ DrawAtMost(rn, cum[j])
             /\ \A h \in 1..(j - 1) : ~DrawAtMost(rn, cum[h])) - 1
    ELSE 0

(* let labels = Array(n).fill(0) *)
ZeroLabels == [i \in 1..Rows |-> 0]

(* as AfterSeed, with the seeding loop running one pass too many (i <= k) *)
AfterSeedOneMore(cs, pk) ==
    /\ centroids' = cs
    /\ picked' = pk
    /\ IF Len(cs) > k
       THEN /\ pc' = "loop"
            /\ labels' = ZeroLabels
            /\ iterations' = 0
            /\ changed' = TRUE
       ELSE /\ pc' = "seeding"
            /\ UNCHANGED <<labels, iterations, changed>>
    /\ UNCHANGED <<data, k, maxIterations, inertia, silVars, preVars, pcaVars, optVars, uiVars>>

(* the seeding loop is over once k centroids exist; the main loop starts *)
AfterSeed(cs, pk) ==
    /\ centroids' = cs
    /\ picked' = pk
    /\ IF Len(cs) >= k
       THEN /\ pc' = "loop"
            /\ labels' = ZeroLabels
            /\ iterations' = 0
            /\ changed' = TRUE
       ELSE /\ pc' = "seeding"
            /\ UNCHANGED <<labels, iterations, changed>>
    /\ UNCHANGED <<data, k, maxIterations, inertia, silVars, preVars, pcaVars, optVars, uiVars>>

(* performKMeans on an empty matrix returns empty labels and centroids *)
KMeansEmpty ==
    /\ pc = "kmeans"
    /\ (Rows = 0 \/ Cols = 0)
    /\ pc' = "done"
    /\ labels' = <<>>
    /\ centroids' = <<>>
    /\ inertia' = 0
    /\ UNCHANGED <<data, k, maxIterations, iterations, changed, picked, silVars, preVars, pcaVars, optVars, uiVars>>

(* first centroid: a row chosen uniformly at random *)
SeedFirst ==
    /\ pc = "kmeans"
    /\ ~(Rows = 0 \/ Cols = 0)
    /\ \E firstIndex \in 0..(Rows - 1) :
          AfterSeed(<<Vec(data[firstIndex + 1])>>, <<firstIndex>>)

(* one pass of the loop choosing the remaining centroids *)
SeedNext ==
    /\ pc = "seeding"
    /\ \E distances \in {SeedDistances(centroids)} :
       \E sum \in {SumSeq[distances]} :
       \E cum \in {Cumulative(distances)} :
          IF sum = 0
          THEN \E randomIndex \in 0..(Rows - 1) :
                  AfterSeed(Append(centroids, Vec(data[randomIndex + 1])),
                            Append(picked, randomIndex))
          ELSE \E r \in RandomDraws(cum, sum) :
               \E selectedIndex \in {SelectIndex(r, cum)} :
                  AfterSeed(Append(centroids, Vec(data[selectedIndex + 1])),
                            Append(picked, selectedIndex))

----------------------------------------------------------------------------
(* K-means: the assign/update loop of performKMeans *)

(* as NearestIndex, a later centroid at the same distance replacing the      *)
(* earlier one (distance <= minDistance)                                     *)
NearestIndexLast(point, cs) ==
    LET scan[t \in Nat \X [num : Int, den : Int] \X Nat] ==
            IF t[1] >= k THEN t[3]
            ELSE IF ~DistLess(t[2], euclideanDistance(point, cs[t[1] + 1]))
                 THEN scan[<<t[1] + 1, euclideanDistance(point, cs[t[1] + 1]), t[1]>>]
                 ELSE scan[<<t[1] + 1, t[2], t[3]>>]
    IN scan[<<0, Infinity, 0>>]

(* scan of the centroids j = 0..Len(cs)-1 keeping the first strictly smaller *)
(* distance; t = <<j, minDistance, minIndex>>                               *)
NearestIndex(point, cs) ==
    LET scan[t \in Nat \X [num : Int, den : Int] \X Nat] ==
            IF t[1] >= k THEN t[3]
            ELSE IF DistLess(euclideanDistance(point, cs[t[1] + 1]), t[2])
                 THEN scan[<<t[1] + 1, euclideanDistance(point, cs[t[1] + 1]), t[1]>>]
                 ELSE scan[<<t[1] + 1, t[2], t[3]>>]
    IN scan[<<0, Infinity, 0>>]

(* as LoopGuard, without the iteration cap *)
LoopGuardNoCap == changed

(* while (changed && iterations < maxIterations) *)
LoopGuard == changed /\ iterations < maxIterations

(* as Assign, leaving the loop before the update when no label changed *)
AssignBreakEarly ==
    /\ pc = "loop"
    /\ LoopGuard
    /\ \E newLabels \in {[i \in 1..Rows |-> NearestIndex(Vec(data[i]), centroids)]} :
          /\ labels' = newLabels
          /\ changed' = (\E i \in 1..Rows : labels[i] # newLabels[i])
          /\ pc' = IF \E i \in 1..Rows : labels[i] # newLabels[i] THEN "update" ELSE "loop"
    /\ iterations' = iterations + 1
    /\ UNCHANGED <<data, k, maxIterations, centroids, inertia, picked, silVars, preVars, pcaVars, optVars, uiVars>>

(* assign every point to its nearest centroid *)
Assign ==
    /\ pc = "loop"
    /\ LoopGuard
    /\ \E newLabels \in {[i \in 1..Rows |-> NearestIndex(Vec(data[i]), centroids)]} :
          /\ labels' = newLabels
          /\ changed' = (\E i \in 1..Rows : labels[i] # newLabels[i])
    /\ iterations' = iterations + 1
    /\ pc' = "update"
    /\ UNCHANGED <<data, k, maxIterations, centroids, inertia, picked, silVars, preVars, pcaVars, optVars, uiVars>>

(* counts[c]: number of points labelled c *)
ClusterCount(ls, c) == Cardinality({i \in DOMAIN ls : ls[i] = c})

(* newCentroids[c][j]: sum of coordinate j over the points labelled c *)
RECURSIVE ClusterSum(_, _, _, _)
ClusterSum(ls, c, j, i) ==
    IF i > Len(ls) THEN 0
    ELSE (IF ls[i] = c THEN data[i][j] ELSE 0) + ClusterSum(ls, c, j, i + 1)

(* as UpdatedCentroid, an empty cluster being reseeded with the first row *)
UpdatedCentroidReseed(ls, c, old) ==
    IF ClusterCount(ls, c) > 0
    THEN [num |-> [j \in 1..Cols |-> ClusterSum(ls, c, j, 1)],
          den |-> ClusterCount(ls, c)]
    ELSE Vec(data[1])

(* a cluster with points gets their mean; an empty one keeps its old centroid *)
UpdatedCentroid(ls, c, old) ==
    IF ClusterCount(ls, c) > 0
    THEN [num |-> [j \in 1..Cols |-> ClusterSum(ls, c, j, 1)],
          den |-> ClusterCount(ls, c)]
    ELSE old

(* as Update, with centroids that are the seed rows themselves and not copies: *)
(* the mean of a cluster is written into the row its centroid was taken from  *)
UpdateInPlace ==
    /\ pc = "update"
    /\ \E cs \in {[c \in 1..Len(centroids) |->
                     IF c <= k THEN UpdatedCentroid(labels, c - 1, centroids[c])
                               ELSE centroids[c]]} :
          /\ centroids' = cs
          /\ data' = [i \in 1..Rows |->
                         IF \E c \in 1..Len(picked) : picked[c] = i - 1
                         THEN LET c == CHOOSE c \in 1..Len(picked) : picked[c] = i - 1
                              IN [j \in 1..Cols |-> cs[c].num[j] \div cs[c].den]
                         ELSE data[i]]
    /\ pc' = "loop"
    /\ UNCHANGED <<k, maxIterations, labels, iterations, changed, inertia, picked, silVars, preVars, pcaVars, optVars, uiVars>>

(* recalculate the centroids *)
Update ==
    /\ pc = "update"
    /\ centroids' = [c \in 1..Len(centroids) |->
                        IF c <= k THEN UpdatedCentroid(labels, c - 1, centroids[c])
                                  ELSE centroids[c]]
    /\ pc' = "loop"
    /\ UNCHANGED <<data, k, maxIterations, labels, iterations, changed, inertia, picked, silVars, preVars, pcaVars, optVars, uiVars>>

(* as Inertia, summing the squared distances *)
InertiaSquared(ls, cs) ==
    SumSeq[[i \in 1..Rows |->
              LET q == euclideanDistance(Vec(data[i]), cs[ls[i] + 1])
              IN (q.num * Scale) \div q.den]]

(* inertia: sum of the distances of the points to their centroid *)
Inertia(ls, cs) ==
    SumSeq[[i \in 1..Rows |-> Sqrt(euclideanDistance(Vec(data[i]), cs[ls[i] + 1]))]]

(* as Finish, the inertia being measured to the seed rows and not to the    *)
(* centroids of the last update                                              *)
FinishFromSeeds ==
    /\ pc = "loop"
    /\ ~LoopGuard
    /\ inertia' = Inertia(labels, [c \in 1..Len(centroids) |-> Vec(data[picked[c] + 1])])
    /\ pc' = "done"
    /\ UNCHANGED <<data, k, maxIterations, centroids, labels, iterations, changed, picked, silVars, preVars, pcaVars, optVars, uiVars>>

(* the loop has ended: compute the inertia and return *)
Finish ==
    /\ pc = "loop"
    /\ ~LoopGuard
    /\ inertia' = Inertia(labels, centroids)
    /\ pc' = "done"
    /\ UNCHANGED <<data, k, maxIterations, centroids, labels, iterations, changed, picked, silVars, preVars, pcaVars, optVars, uiVars>>

----------------------------------------------------------------------------
(* Specification of performKMeans *)

InitKM ==
    /\ pc = "kmeans"
    /\ data \in Matrices \cup {ScenarioMatrix}
    /\ k \in 1..MaxK
    /\ maxIterations \in 0..MaxIter
    /\ centroids = <<>>
    /\ labels = <<>>
    /\ iterations = 0
    /\ changed = TRUE
    /\ inertia = 0
    /\ picked = <<>>
    /\ score = 0
    /\ terms = <<>>
    /\ rawData = <<>>
    /\ out = NoOutput
    /\ numComponents = Unspecified
    /\ pca = NoPCA
    /\ opt = NoSweep
    /\ ui = NoUI

NextKM == KMeansEmpty \/ SeedFirst \/ SeedNext \/ Assign \/ Update \/ Finish

SpecKM == InitKM /\ [][NextKM]_vars

(* the call runs to completion: no step of it is ever abandoned *)
SpecKMFair == SpecKM /\ WF_vars(NextKM)

----------------------------------------------------------------------------
(* calculateSilhouetteScore *)

SetMin(S) == CHOOSE x \in S : \A y \in S : x <= y

SetMax(S) == CHOOSE x \in S : \A y \in S : x >= y

(* fixed-point distance between rows i and j *)
RowDistance(i, j) == Sqrt(euclideanDistance(Vec(data[i]), Vec(data[j])))

(* sum of the distances from row i to the rows of J *)
DistanceSum(i, J) == SumSeq[[j \in 1..Rows |-> IF j \in J THEN RowDistance(i, j) ELSE 0]]

(* a: average distance to the other points of the same cluster, 0 if there is none *)
IntraCluster(ls, i) ==
    LET same == {j \in 1..Rows : j # i /\ ls[j] = ls[i]}
    IN IF Cardinality(same) > 0 THEN DistanceSum(i, same) \div Cardinality(same) ELSE 0

(* b: least average distance to the points of another cluster, 0 if there is none *)
InterCluster(ls, i) ==
    LET uniqueClusters == Range(ls)
        avgDistance(c) == LET members == {j \in 1..Rows : ls[j] = c}
                          IN DistanceSum(i, members) \div Cardinality(members)
        others == {avgDistance(c) : c \in uniqueClusters \ {ls[i]}}
    IN IF others = {} THEN 0 ELSE SetMin(others)

(* as SilhouetteOf, with a and b exchanged in the quotient *)
SilhouetteOfSwapped(a, b) ==
    IF a = 0 /\ b = 0 THEN 0
    ELSE IF a = 0 THEN Scale
    ELSE IF b = 0 THEN 0 - Scale
    ELSE Quot((a - b) * Scale, SetMax({a, b}))

(* the silhouette coefficient of a point from its a and b *)
SilhouetteOf(a, b) ==
    IF a = 0 /\ b = 0 THEN 0
    ELSE IF a = 0 THEN Scale
    ELSE IF b = 0 THEN 0 - Scale
    ELSE Quot((b - a) * Scale, SetMax({a, b}))

SilhouetteTerms(ls) ==
    [i \in 1..Rows |-> SilhouetteOf(IntraCluster(ls, i), InterCluster(ls, i))]

(* the call: 0 for fewer than 2 points or fewer than 2 distinct labels, else the mean *)
Silhouette ==
    /\ pc = "silhouette"
    /\ IF Rows < 2 \/ Cardinality(Range(labels)) < 2
       THEN /\ score' = 0
            /\ terms' = <<>>
       ELSE \E ts \in {SilhouetteTerms(labels)} :
               /\ terms' = ts
               /\ score' = Quot(SumSeq[ts], Rows)
    /\ pc' = "done"
    /\ UNCHANGED <<data, k, maxIterations, centroids, labels, iterations, changed,
                   inertia, picked, preVars, pcaVars, optVars, uiVars>>

(* the caller passes one label per row *)
InitSil ==
    /\ pc = "silhouette"
    /\ data \in Matrices
    /\ labels \in [1..Rows -> 0..(MaxK - 1)]
    /\ k = MaxK
    /\ maxIterations = 0
    /\ centroids = <<>>
    /\ iterations = 0
    /\ changed = FALSE
    /\ inertia = 0
    /\ picked = <<>>
    /\ score = 0
    /\ terms = <<>>
    /\ rawData = <<>>
    /\ out = NoOutput
    /\ numComponents = Unspecified
    /\ pca = NoPCA
    /\ opt = NoSweep
    /\ ui = NoUI

NextSil == Silhouette

SpecSil == InitSil /\ [][NextSil]_vars

----------------------------------------------------------------------------
(* Records (TitanicPassenger) *)

(* A cell value: a number, a string, null, or undefined (the key is absent) *)
Num(x) == [t |-> "num", n |-> x, s |-> ""]
Str(x) == [t |-> "str", n |-> 0, s |-> x]
Null == [t |-> "null", n |-> 0, s |-> ""]
Undefined == [t |-> "undef", n |-> 0, s |-> ""]

(* A record is a function from its own keys to values.  Its keys are       *)
(* enumerated in insertion order: the CSV header order, then the keys      *)
(* engineerFeatures adds.                                                  *)
KeyOrder ==
    <<"PassengerId", "Survived", "Pclass", "Name", "Sex", "Age", "SibSp", "Parch",
      "Ticket", "Fare", "Cabin", "Embarked", "FamilySize", "Title", "HasCabin">>

(* passenger[key] *)
Get(passenger, key) == IF key \in DOMAIN passenger THEN passenger[key] ELSE Undefined

(* { ...passenger, key: value } *)
With(passenger, key, value) ==
    [x \in DOMAIN passenger \cup {key} |-> IF x = key THEN value ELSE passenger[x]]

(* the keys of a record in enumeration order (for ... in) *)
KeysOf(passenger) == SelectSeq(KeyOrder, LAMBDA x : x \in DOMAIN passenger)

(* JavaScript truthiness of a cell value *)
Truthy(v) == (v.t = "num" /\ v.n # 0) \/ (v.t = "str" /\ v.s # "")

(* typeof value === 'number' *)
IsNumber(v) == v.t = "num"

(* value === null || value === undefined *)
IsNullish(v) == v.t \in {"null", "undef"}

(* value === null || value === undefined || value === '' *)
IsBlank(v) == IsNullish(v) \/ v = Str("")

(* String(n) for the small integers of the model *)
Digits == <<"0", "1", "2", "3", "4", "5", "6", "7", "8", "9">>

(* String(value): the property name a value is stored under *)
StringOf(v) ==
    IF v.t = "num" THEN Digits[v.n + 1]
    ELSE IF v.t = "str" THEN v.s
    ELSE IF v.t = "null" THEN "null" ELSE "undefined"

(* a property name that is a canonical array index; such names are enumerated first *)
IsIndexKey(x) == x \in Range(Digits)

IndexOfKey(x) == (CHOOSE i \in DOMAIN Digits : Digits[i] = x) - 1

----------------------------------------------------------------------------
(* engineerFeatures, separateFeatures, identifyFeatureTypes *)

(* the names of the model and the title the pattern /,\s*([^\s\.]+)\./ extracts; *)
(* "" stands for no match                                                       *)
TitleMatch(name) ==
    IF name = "Braund, Mr. Owen" THEN "Mr"
    ELSE IF name = "Heikkinen, Miss. Laina" THEN "Miss"
    ELSE ""

(* value || 0 for a count *)
OrZero(v) == IF IsNumber(v) /\ v.n # 0 THEN v.n ELSE 0

EngineerOne(passenger) ==
    LET familySize == OrZero(Get(passenger, "SibSp")) + OrZero(Get(passenger, "Parch")) + 1
        cabin == Get(passenger, "Cabin")
        hasCabin == IF Truthy(cabin) /\ cabin # Str("") THEN 1 ELSE 0
        name == Get(passenger, "Name")
        withFamily == With(passenger, "FamilySize", Num(familySize))
        withTitle == IF Truthy(name)
                     THEN With(withFamily, "Title",
                               Str(IF TitleMatch(name.s) # "" THEN TitleMatch(name.s)
                                                            ELSE "Unknown"))
                     ELSE withFamily
    IN With(withTitle, "HasCabin", Num(hasCabin))

engineerFeatures(ds) == [i \in 1..Len(ds) |-> EngineerOne(ds[i])]

(* const { Survived, ...rest } = passenger *)
WithoutSurvived(passenger) == [x \in DOMAIN passenger \ {"Survived"} |-> passenger[x]]

(* passenger.Survived || 0 *)
SurvivedOf(passenger) == OrZero(Get(passenger, "Survived"))

separateFeatures(ds) ==
    [features |-> [i \in 1..Len(ds) |-> WithoutSurvived(ds[i])],
     survived |-> [i \in 1..Len(ds) |-> SurvivedOf(ds[i])]]

excludeFeatures == {"PassengerId", "Name", "Ticket", "Cabin", "Survived"}

(* the feature lists are read off the first record only *)
identifyFeatureTypes(ds) ==
    IF Len(ds) = 0 THEN [numericalFeatures |-> <<>>, categoricalFeatures |-> <<>>]
    ELSE LET samplePassenger == ds[1]
             candidates == SelectSeq(KeysOf(samplePassenger),
                                     LAMBDA f : f \notin excludeFeatures)
         IN [numericalFeatures |->
                 SelectSeq(candidates, LAMBDA f : IsNumber(samplePassenger[f])),
             categoricalFeatures |->
                 SelectSeq(candidates, LAMBDA f : ~IsNumber(samplePassenger[f]))]

----------------------------------------------------------------------------
(* imputeMissingValues *)

(* insertion of x into an ascending sequence *)
InsertSorted(sorted, x) ==
    LET below == SelectSeq(sorted, LAMBDA y : y <= x)
        above == SelectSeq(sorted, LAMBDA y : y > x)
    IN below \o <<x>> \o above

(* validValues.sort((a, b) => a - b) *)
SortNumbers[vs \in Seq(Int)] ==
    IF vs = <<>> THEN <<>> ELSE InsertSorted(SortNumbers[Tail(vs)], vs[1])

(* the cells of a column, in row order *)
Column(ds, feature) == [i \in 1..Len(ds) |-> Get(ds[i], feature)]

(* median of the observed values of a numerical column, 0 if there is none.  *)
(* The numbers of the model are odd, so the mean of two of them is integral. *)
MedianOf(ds, feature) ==
    LET observed == SelectSeq(Column(ds, feature), LAMBDA v : ~IsNullish(v))
        validValues == SortNumbers[[i \in 1..Len(observed) |-> observed[i].n]]
        mid == Len(validValues) \div 2
    IN IF Len(validValues) > 0
       THEN IF Len(validValues) % 2 = 0
            THEN (validValues[mid] + validValues[mid + 1]) \div 2
            ELSE validValues[mid + 1]
       ELSE 0

(* the distinct elements of a sequence in first-seen order *)
Distinct[xs \in Seq(STRING)] ==
    IF xs = <<>> THEN <<>>
    ELSE LET front == Distinct[SubSeq(xs, 1, Len(xs) - 1)]
             last == xs[Len(xs)]
         IN IF last \in Range(front) THEN front ELSE Append(front, last)

(* ascending sequence of a set of index keys *)
SortIndexKeys[S \in SUBSET Range(Digits)] ==
    IF S = {} THEN <<>>
    ELSE LET least == CHOOSE x \in S : \A y \in S : IndexOfKey(x) <= IndexOfKey(y)
         IN <<least>> \o SortIndexKeys[S \ {least}]

(* as PropertyOrder, enumerating every key in insertion order *)
PropertyOrderInsertion(inserted) == inserted

(* Object.entries order of an object whose keys were inserted in the given   *)
(* order: index keys ascending, then the other keys in insertion order       *)
PropertyOrder(inserted) ==
    SortIndexKeys[{x \in Range(inserted) : IsIndexKey(x)}]
        \o SelectSeq(inserted, LAMBDA x : ~IsIndexKey(x))

Occurrences(xs, x) == Cardinality({i \in DOMAIN xs : xs[i] = x})

(* scan of the entries keeping the first strictly greater count; t = <<i, maxCount, modeValue>> *)
ModeScan(entries, observed) ==
    LET scan[t \in Nat \X Nat \X STRING] ==
            IF t[1] > Len(entries) THEN t[3]
            ELSE IF Occurrences(observed, entries[t[1]]) > t[2]
                 THEN scan[<<t[1] + 1, Occurrences(observed, entries[t[1]]), entries[t[1]]>>]
                 ELSE scan[<<t[1] + 1, t[2], t[3]>>]
    IN scan[<<1, 0, "">>]

(* mode of the observed values of a categorical column: a property name, '' if none *)
ModeOf(ds, feature) ==
    LET cells == SelectSeq(Column(ds, feature), LAMBDA v : ~IsBlank(v))
        observed == [i \in 1..Len(cells) |-> StringOf(cells[i])]
    IN ModeScan(PropertyOrder(Distinct[observed]), observed)

(* as ImputeOne, filling the categorical columns of no record *)
ImputeOneNumericOnly(passenger, types, medians, modes) ==
    [x \in DOMAIN passenger \cup Range(types.numericalFeatures) |->
        IF x \in Range(types.numericalFeatures) /\ IsNullish(Get(passenger, x))
        THEN Num(medians[x])
        ELSE Get(passenger, x)]

(* the imputed copy of one record *)
ImputeOne(passenger, types, medians, modes) ==
    [x \in DOMAIN passenger \cup Range(types.numericalFeatures)
                           \cup Range(types.categoricalFeatures) |->
        IF x \in Range(types.numericalFeatures) /\ IsNullish(Get(passenger, x))
        THEN Num(medians[x])
        ELSE IF x \in Range(types.categoricalFeatures) /\ IsBlank(Get(passenger, x))
        THEN Str(modes[x])
        ELSE Get(passenger, x)]

imputeMissingValues(ds) ==
    LET types == identifyFeatureTypes(ds)
        medians == [f \in Range(types.numericalFeatures) |-> MedianOf(ds, f)]
        modes == [f \in Range(types.categoricalFeatures) |-> ModeOf(ds, f)]
    IN [i \in 1..Len(ds) |-> ImputeOne(ds[i], types, medians, modes)]

----------------------------------------------------------------------------
(* oneHotEncodeCategorical *)

(* as CategoricalValues, the value seen last coming first *)
CategoricalValuesReversed(ds, feature) ==
    LET cells == SelectSeq(Column(ds, feature), LAMBDA v : ~IsBlank(v))
        add[i \in 0..Len(cells)] ==
            IF i = 0 THEN <<>>
            ELSE IF cells[i] \in Range(add[i - 1]) THEN add[i - 1]
                 ELSE <<cells[i]>> \o add[i - 1]
    IN add[Len(cells)]

(* the distinct non-blank values of a column in first-seen order (a Set) *)
CategoricalValues(ds, feature) ==
    LET cells == SelectSeq(Column(ds, feature), LAMBDA v : ~IsBlank(v))
        add[i \in 0..Len(cells)] ==
            IF i = 0 THEN <<>>
            ELSE IF cells[i] \in Range(add[i - 1]) THEN add[i - 1]
                 ELSE Append(add[i - 1], cells[i])
    IN add[Len(cells)]

(* a matrix entry that is not a number (row.push of null, undefined or a string) *)
NotANumber == 0 - 1

(* passenger[feature] as number: the cast converts nothing *)
NumberCell(v) == IF IsNumber(v) THEN v.n ELSE NotANumber

(* concatenation of a sequence of sequences *)
Flatten(ss) ==
    LET cat[i \in 0..Len(ss)] == IF i = 0 THEN <<>> ELSE cat[i - 1] \o ss[i]
    IN cat[Len(ss)]

(* as OneHotBlock, comparing the values as strings *)
OneHotBlockLoose(passenger, feature, values) ==
    [j \in 1..Len(values) |->
        IF StringOf(Get(passenger, feature)) = StringOf(values[j]) THEN 1 ELSE 0]

(* the one-hot block of a record for one categorical column *)
OneHotBlock(passenger, feature, values) ==
    [j \in 1..Len(values) |-> IF Get(passenger, feature) = values[j] THEN 1 ELSE 0]

(* the names of the one-hot columns of a categorical column *)
BlockNames(feature, values) ==
    [j \in 1..Len(values) |-> <<feature, StringOf(values[j])>>]

oneHotEncodeCategorical(ds, categoricalFeatures) ==
    LET categoricalValues ==
            [c \in 1..Len(categoricalFeatures) |-> CategoricalValues(ds, categoricalFeatures[c])]
        numericalFeatures == identifyFeatureTypes(ds).numericalFeatures
        numericRow(passenger) ==
            [j \in 1..Len(numericalFeatures) |-> NumberCell(Get(passenger, numericalFeatures[j]))]
        blocks(passenger) ==
            [c \in 1..Len(categoricalFeatures) |->
                OneHotBlock(passenger, categoricalFeatures[c], categoricalValues[c])]
    IN [encodedData |->
            [i \in 1..Len(ds) |-> numericRow(ds[i]) \o Flatten(blocks(ds[i]))],
        features |->
            [j \in 1..Len(numericalFeatures) |-> <<numericalFeatures[j]>>]
            \o Flatten([c \in 1..Len(categoricalFeatures) |->
                          BlockNames(categoricalFeatures[c], categoricalValues[c])]),
        categoricalValues |-> categoricalValues]

----------------------------------------------------------------------------
(* standardizeData: the result is in fixed point *)

(* means[j] *)
ColumnMeans(m) ==
    [j \in 1..Len(m[1]) |-> Quot(SumSeq[[i \in 1..Len(m) |-> m[i][j]]] * Scale, Len(m))]

(* as ColumnStds, with the divisor n - 1 of the sample deviation *)
ColumnStdsSample(m, means) ==
    [j \in 1..Len(m[1]) |->
        LET std == IF Len(m) = 1 THEN 0
                   ELSE ISqrt(SumSeq[[i \in 1..Len(m) |->
                                   (m[i][j] * Scale - means[j]) * (m[i][j] * Scale - means[j])]]
                              \div (Len(m) - 1))
        IN IF std = 0 THEN Scale ELSE std]

(* stds[j], with 0 replaced by 1 *)
ColumnStds(m, means) ==
    [j \in 1..Len(m[1]) |->
        LET std == ISqrt(SumSeq[[i \in 1..Len(m) |->
                                   (m[i][j] * Scale - means[j]) * (m[i][j] * Scale - means[j])]]
                         \div Len(m))
        IN IF std = 0 THEN Scale ELSE std]

(* as standardizeData, with the rows written back in reverse order *)
standardizeDataReversed(m) ==
    IF Len(m) = 0 \/ Len(m[1]) = 0 THEN <<>>
    ELSE LET means == ColumnMeans(m)
             stds == ColumnStds(m, means)
         IN [i \in 1..Len(m) |->
                [j \in 1..Len(m[1]) |->
                    Quot((m[Len(m) + 1 - i][j] * Scale - means[j]) * Scale, stds[j])]]

standardizeData(m) ==
    IF Len(m) = 0 \/ Len(m[1]) = 0 THEN <<>>
    ELSE LET means == ColumnMeans(m)
             stds == ColumnStds(m, means)
         IN [i \in 1..Len(m) |->
                [j \in 1..Len(m[1]) |->
                    Quot((m[i][j] * Scale - means[j]) * Scale, stds[j])]]

----------------------------------------------------------------------------
(* preprocessData *)

preprocessData(ds) ==
    LET enhancedData == engineerFeatures(ds)
        separated == separateFeatures(enhancedData)
        types == identifyFeatureTypes(separated.features)
        imputedData == imputeMissingValues(separated.features)
        encoded == oneHotEncodeCategorical(imputedData, types.categoricalFeatures)
    IN [ready |-> TRUE,
        call |-> "preprocessData",
        original |-> ds,
        processed |-> standardizeData(encoded.encodedData),
        features |-> encoded.features,
        categoricalFeatures |-> types.categoricalFeatures,
        numericalFeatures |-> types.numericalFeatures,
        survivedColumn |-> separated.survived,
        \* intermediate results, kept for the properties
        separated |-> separated.features,
        input |-> imputedData,
        encodedData |-> encoded.encodedData,
        categoricalValues |-> encoded.categoricalValues]

(* the call of preprocessData *)
Preprocess ==
    /\ pc = "preprocess"
    /\ out' = preprocessData(rawData)
    /\ pc' = "done"
    /\ UNCHANGED <<rawData, kmVars, silVars, pcaVars, optVars, uiVars>>

(* a direct call of oneHotEncodeCategorical on records that were not imputed, *)
(* with the categorical columns identifyFeatureTypes finds                   *)
Encode ==
    /\ pc = "preprocess"
    /\ \E ds \in {separateFeatures(engineerFeatures(rawData)).features} :
       \E categoricalFeatures \in {identifyFeatureTypes(ds).categoricalFeatures} :
       \E encoded \in {oneHotEncodeCategorical(ds, categoricalFeatures)} :
          out' = [ready |-> TRUE,
                  call |-> "oneHotEncodeCategorical",
                  input |-> ds,
                  categoricalFeatures |-> categoricalFeatures,
                  numericalFeatures |-> identifyFeatureTypes(ds).numericalFeatures,
                  encodedData |-> encoded.encodedData,
                  features |-> encoded.features,
                  categoricalValues |-> encoded.categoricalValues]
    /\ pc' = "done"
    /\ UNCHANGED <<rawData, kmVars, silVars, pcaVars, optVars, uiVars>>

(* Records as parseCSV delivers them: a missing number is null, a missing    *)
(* text is ''.  The outcome flag is read by separateFeatures only; it is     *)
(* known exactly for the passengers whose sex is known.                      *)
Passengers ==
    {p \in [Survived : {Null, Num(1)},
            Pclass : {Null, Num(1), Num(3)},
            Name : {Str(""), Str("Braund, Mr. Owen")},
            Sex : {Str(""), Str("male")}] :
        (p.Survived = Null) <=> (p.Sex = Str(""))}

Datasets == UNION {[1..n -> Passengers] : n \in 0..MaxRecords}

InitPre ==
    /\ pc = "preprocess"
    /\ rawData \in Datasets
    /\ out = NoOutput
    /\ data = <<>>
    /\ labels = <<>>
    /\ k = 1
    /\ maxIterations = 0
    /\ centroids = <<>>
    /\ iterations = 0
    /\ changed = FALSE
    /\ inertia = 0
    /\ picked = <<>>
    /\ score = 0
    /\ terms = <<>>
    /\ numComponents = Unspecified
    /\ pca = NoPCA
    /\ opt = NoSweep
    /\ ui = NoUI

NextPre == Preprocess \/ Encode

SpecPre == InitPre /\ [][NextPre]_vars

----------------------------------------------------------------------------
(* The library as its callers use it: a call of preprocessData or of        *)
(* oneHotEncodeCategorical on records, or a call of performKMeans on a      *)
(* matrix                                                                   *)

InitApp == InitPre \/ InitKM

NextApp == NextPre \/ NextKM

SpecApp == InitApp /\ [][NextApp]_vars

----------------------------------------------------------------------------
(* Properties of performKMeans *)

NonEmptyMatrix == Rows >= 1 /\ Cols >= 1

Returned == pc = "done" /\ NonEmptyMatrix

(* the loop ended because an iteration changed no label *)
Converged == Returned /\ ~changed

(* the loop ended because maxIterations iterations had run *)
Exhausted == Returned /\ changed /\ iterations >= maxIterations

(* distance of row i to centroid c (0-based) *)
DistTo(i, c) == euclideanDistance(Vec(data[i]), centroids[c + 1])

(* C1: on a non-empty matrix with k >= 1, whatever the random draws and      *)
(* whether the loop converged or ran out of iterations, the returned value   *)
(* is a valid assignment: n labels each in 0..k-1, k centroids each a vector *)
(* of d numbers, and a non-negative inertia.                                 *)
C1_ValidAssignment ==
    Returned =>
        /\ Converged \/ Exhausted
        /\ Len(labels) = Rows
        /\ \A i \in 1..Rows : labels[i] \in 0..(k - 1)
        /\ Len(centroids) = k
        /\ \A c \in 1..k : Len(centroids[c].num) = Cols /\ centroids[c].den > 0
        /\ inertia >= 0

C1_Witness ==
    /\ Converged
    /\ k >= 2
    /\ iterations >= 2
    /\ \E i \in 1..Rows : labels[i] # 0
    /\ inertia > 0

(* C2: performKMeans terminates: the loop never runs more than maxIterations *)
(* iterations and the call eventually returns, converged or exhausted.       *)
C2_Terminates ==
    /\ [](iterations <= maxIterations)
    /\ <>(pc = "done" /\ (NonEmptyMatrix => (Converged \/ Exhausted)))

C2_Witness ==
    /\ Exhausted
    /\ iterations = maxIterations
    /\ maxIterations >= 2

(* C3: after convergence every point is at least as close to the returned    *)
(* centroid of its label as to every other returned centroid.                *)
C3_NearestAfterConvergence ==
    Converged =>
        \A i \in 1..Rows : \A c \in 0..(k - 1) :
            ~DistLess(DistTo(i, c), DistTo(i, labels[i]))

(* number of distinct positions among the rows *)
DistinctPositions == Cardinality(Range(data))

NoRowTwice(pk) == \A a, b \in DOMAIN pk : a # b => pk[a] # pk[b]

(* C4: with at least k rows at distinct positions (so not all pairwise        *)
(* distances are 0), seeding never selects the same row twice, whatever the  *)
(* random draws.                                                             *)
C4_SeedsDistinctRows ==
    (NonEmptyMatrix /\ DistinctPositions >= k /\ DistinctPositions >= 2)
        => NoRowTwice(picked)

(* a centroid equals the rational vector nums / den *)
CentroidIs(c, nums, den) ==
    \A j \in 1..Len(nums) : centroids[c].num[j] * den = nums[j] * centroids[c].den

ScenarioRun == data = ScenarioMatrix /\ k = 2 /\ maxIterations >= 2 /\ pc = "done"

(* rows {0,1} in one cluster, rows {2,3} in the other, centroids (0, 0.5) and (10, 0.5) *)
ScenarioGrouping ==
    /\ ~changed
    /\ labels[1] = labels[2] /\ labels[3] = labels[4] /\ labels[1] # labels[3]
    /\ CentroidIs(labels[1] + 1, <<0, 1>>, 2)
    /\ CentroidIs(labels[3] + 1, <<20, 1>>, 2)

SeedsInBothGroups ==
    /\ Len(picked) = 2
    /\ (picked[1] \in {0, 1}) # (picked[2] \in {0, 1})

----------------------------------------------------------------------------
(* Properties of calculateSilhouetteScore *)

SilhouetteReturned == pc = "done" /\ picked = <<>> /\ centroids = <<>> /\ k = MaxK /\ maxIterations = 0

(* C6: the score lies in [-1, 1] for at least 2 points and 2 distinct labels  *)
(* and is exactly 0 otherwise; a point's coefficient is 0 if a = b = 0, 1 if  *)
(* a = 0 < b, -1 if b = 0 < a, and otherwise lies in [-1, 1] with the sign of *)
(* b - a.                                                                    *)
C6_SilhouetteRange ==
    SilhouetteReturned =>
        IF Rows >= 2 /\ Cardinality(Range(labels)) >= 2
        THEN /\ score >= 0 - Scale /\ score <= Scale
             /\ Len(terms) = Rows
             /\ \A i \in 1..Rows :
                  LET a == IntraCluster(labels, i)
                      b == InterCluster(labels, i)
                  IN /\ terms[i] >= 0 - Scale /\ terms[i] <= Scale
                     /\ (a = 0 /\ b = 0) => terms[i] = 0
                     /\ (a = 0 /\ b > 0) => terms[i] = Scale
                     /\ (b = 0 /\ a > 0) => terms[i] = 0 - Scale
                     /\ (a > 0 /\ b > a) => terms[i] > 0
                     /\ (b > 0 /\ a > b) => terms[i] < 0
        ELSE score = 0

C6_Witness ==
    /\ SilhouetteReturned
    /\ Rows >= 3
    /\ Cardinality(Range(labels)) >= 2
    /\ \E i \in 1..Rows : terms[i] < 0 /\ terms[i] > 0 - Scale
    /\ \E i \in 1..Rows : terms[i] = Scale

----------------------------------------------------------------------------
(* Properties of the preprocessing pipeline *)

Encoded == pc = "done" /\ out.ready

Preprocessed == Encoded /\ out.call = "preprocessData"

(* first matrix column (0-based offset) of the one-hot block of categorical column c *)
BlockOffset(c) ==
    Len(identifyFeatureTypes(out.input).numericalFeatures)
        + SumSeq[[b \in 1..(c - 1) |-> Len(out.categoricalValues[b])]]

(* the entries of matrix row i in the block of categorical column c *)
BlockOf(i, c) ==
    SubSeq(out.encodedData[i], BlockOffset(c) + 1,
           BlockOffset(c) + Len(out.categoricalValues[c]))

(* C7: in the encoded matrix every entry of a one-hot block is 0 or 1; the    *)
(* block of a row holds exactly one 1 when the row's value is one of the     *)
(* discovered categories, and only 0 when the value is null, undefined or '' *)
C7_OneHotBlocks ==
    Encoded =>
        \A i \in 1..Len(out.input) : \A c \in 1..Len(out.categoricalFeatures) :
            LET value == Get(out.input[i], out.categoricalFeatures[c])
                block == BlockOf(i, c)
            IN /\ Len(out.encodedData[i]) = Len(out.features)
               /\ Len(block) = Len(out.categoricalValues[c])
               /\ \A j \in DOMAIN block : block[j] \in {0, 1}
               /\ value \in Range(out.categoricalValues[c]) => SumSeq[block] = 1
               /\ IsBlank(value) => SumSeq[block] = 0

(* a row whose value is a category seen both as a number and as text, and a  *)
(* row with a blank value in a column that has categories                    *)
C7_Witness ==
    /\ Encoded
    /\ \E i \in 1..Len(out.input) : \E c \in 1..Len(out.categoricalFeatures) :
          /\ Len(out.categoricalValues[c]) >= 2
          /\ Get(out.input[i], out.categoricalFeatures[c]) \in Range(out.categoricalValues[c])
          /\ SumSeq[BlockOf(i, c)] = 1
    /\ \E i \in 1..Len(out.input) : \E c \in 1..Len(out.categoricalFeatures) :
          /\ Len(out.categoricalValues[c]) >= 1
          /\ IsBlank(Get(out.input[i], out.categoricalFeatures[c]))

(* the columns of a dataset: every key of every record *)
ColumnsOf(ds) == UNION {DOMAIN ds[i] : i \in 1..Len(ds)}

(* C8: after imputeMissingValues no cell of a non-excluded column is missing: *)
(* none is null or undefined and none is the empty string                    *)
C8_NoMissingAfterImpute ==
    Preprocessed =>
        \A i \in 1..Len(out.input) : \A f \in ColumnsOf(out.separated) \ excludeFeatures :
            ~IsBlank(Get(out.input[i], f))

(* C9 (preprocess is deterministic) compares two calls on the same records.  *)
(* preprocessData is an operator of its argument here, as in the source it   *)
(* reads no clock, no random number and no module state, so the two calls    *)
(* are one value and the comparison holds of any model: no formula is given. *)

(* the raw cell of record i in feature column f *)
RawCell(i, f) == Get(rawData[i], f)

(* processed keeps the order of a numerical column among the rows whose raw  *)
(* cell is a number                                                          *)
NumericalOrderKept ==
    \A j \in 1..Len(out.numericalFeatures) :
        \A i1, i2 \in 1..Len(rawData) :
            LET v1 == RawCell(i1, out.numericalFeatures[j])
                v2 == RawCell(i2, out.numericalFeatures[j])
            IN (IsNumber(v1) /\ IsNumber(v2) /\ v1.n < v2.n)
                   => out.processed[i1][j] < out.processed[i2][j]

(* in the column of a category, a row whose raw cell is the category lies    *)
(* above a row whose raw cell is another category                            *)
CategoryOrderKept ==
    \A c \in 1..Len(out.categoricalFeatures) :
        \A b \in 1..Len(out.categoricalValues[c]) :
            \A i1, i2 \in 1..Len(rawData) :
                LET v1 == RawCell(i1, out.categoricalFeatures[c])
                    v2 == RawCell(i2, out.categoricalFeatures[c])
                IN (v1 = out.categoricalValues[c][b] /\ ~IsBlank(v2) /\ v2 # v1)
                       => out.processed[i1][BlockOffset(c) + b]
                              > out.processed[i2][BlockOffset(c) + b]

(* C10: for n >= 1 records preprocessData returns n matrix rows and n        *)
(* outcomes, row i and outcome i being those of record i; performKMeans      *)
(* on a matrix with rows and columns returns one label per matrix row, the   *)
(* label of row i being the centroid nearest to row i when it was assigned   *)
C10_RowOrderPreserved ==
    /\ (Preprocessed /\ Len(rawData) >= 1) =>
           /\ Len(out.processed) = Len(rawData)
           /\ Len(out.survivedColumn) = Len(rawData)
           /\ \A i \in 1..Len(rawData) :
                  /\ out.survivedColumn[i] = (IF rawData[i].Survived = Num(1) THEN 1 ELSE 0)
                  /\ Len(out.processed[i]) = Len(out.features)
           /\ NumericalOrderKept
           /\ CategoryOrderKept
    /\ Returned => Len(labels) = Rows
    /\ pc = "update" =>
           /\ Len(labels) = Rows
           /\ \A i \in 1..Rows : \A c \in 0..(Len(centroids) - 1) :
                  ~DistLess(DistTo(i, c), DistTo(i, labels[i]))

(* three records whose class and outcome differ from row to row *)
C10_Witness ==
    /\ Preprocessed
    /\ Len(rawData) = 3
    /\ "Pclass" \in Range(out.numericalFeatures)
    /\ rawData[1].Pclass = Num(1)
    /\ rawData[2].Pclass = Num(3)
    /\ rawData[1].Survived # rawData[2].Survived
    /\ out.survivedColumn[1] # out.survivedColumn[2]
    /\ out.processed[1] # out.processed[2]

----------------------------------------------------------------------------
(* performPCA and computeEigenvectors *)

(* iterations of the power iteration loop *)
PowerIterations == 30

(* Fixed-point unit of the entries of a normalized vector, of the covariance *)
(* matrix and of the eigenvalues: three decimal digits, so the magnitudes    *)
(* computed by the power iteration are approximate                           *)
VScale == 1000

(* A computed number: finite (v, in fixed point), or not a finite number:   *)
(* NaN from 0/0 or from arithmetic on undefined, and whatever follows from it *)
NaN == [nan |-> TRUE, v |-> 0]

Finite(x) == [nan |-> FALSE, v |-> x]

(* every row has as many entries as the first *)
Rectangular(m) == \A i \in DOMAIN m : Len(m[i]) = Len(m[1])

(* a row has fewer entries than d = data[0].length: its cells past the end are undefined *)
HasShortRow == \E i \in 1..Rows : Len(data[i]) < Cols

(* rows of up to MaxDim entries *)
RowsUpTo(d) == UNION {[1..j -> Coord] : j \in 0..d}

(* matrices of two rows of different lengths *)
RaggedMatrices ==
    {m \in [1..2 -> RowsUpTo(MaxDim)] : Len(m[1]) # Len(m[2])}

(* means[j] for j < d: row.forEach adds the cells a row has; unit 1/Scale *)
PCAMeans ==
    [j \in 1..Cols |->
        Quot(SumSeq[[i \in 1..Rows |-> IF j <= Len(data[i]) THEN data[i][j] ELSE 0]] * Scale,
             Rows)]

(* centeredData, columns 0..d-1 (the cells past d are never read); unit 1/Scale *)
CenteredData(means) ==
    [i \in 1..Rows |->
        [j \in 1..(IF Len(data[i]) < Cols THEN Len(data[i]) ELSE Cols) |->
            data[i][j] * Scale - means[j]]]

(* the covariance matrix, unit 1/VScale.  With one row every sum is 0 and the   *)
(* divisor n - 1 is 0; with a short row a sum takes in an undefined cell; the  *)
(* power iteration then turns every number into NaN.                           *)
Covariance(centeredData) ==
    IF Rows = 1 \/ HasShortRow
    THEN [nan |-> TRUE, m |-> <<>>]
    ELSE [nan |-> FALSE,
          m |-> [i \in 1..Cols |-> [j \in 1..Cols |->
                    Quot(SumSeq[[r \in 1..Rows |-> centeredData[r][i] * centeredData[r][j]]]
                             * VScale,
                         (Rows - 1) * Scale * Scale)]]]

(* Math.random() for each entry of the start vector: all 0, all equal, or the  *)
(* first entry twice the others                                                *)
RandomVectors(n) ==
    {[i \in 1..n |-> 0], [i \in 1..n |-> 1], [i \in 1..n |-> IF i = 1 THEN 2 ELSE 1]}

(* vector.map(val => val / norm): 0/0 when the vector is all 0 *)
Normalize(w) ==
    LET norm == ISqrt(SumSeq[[i \in DOMAIN w |-> w[i] * w[i]]])
    IN IF norm = 0 THEN [nan |-> TRUE, vec |-> w]
       ELSE [nan |-> FALSE, vec |-> [i \in DOMAIN w |-> Quot(w[i] * VScale, norm)]]

(* newVector[i] = sum over j of remainingMatrix[i][j] * vector[j] *)
MatVec(m, v) ==
    [i \in DOMAIN m |-> Quot(SumSeq[[j \in DOMAIN v |-> m[i][j] * v[j]]], VScale)]

(* one pass of the loop: multiply, then normalize *)
PowerStep(matrix, vector) ==
    IF vector.nan \/ matrix.nan THEN [nan |-> TRUE, vec |-> vector.vec]
    ELSE Normalize(MatVec(matrix.m, vector.vec))

(* the start vector normalized, then PowerIterations passes of the loop;      *)
(* t = <<iter, vector>>, steps counts the passes                              *)
PowerIteration(matrix, start) ==
    LET run[t \in Nat \X [nan : BOOLEAN, vec : Seq(Int)]] ==
            IF t[1] >= PowerIterations THEN t[2] @@ [steps |-> t[1]]
            ELSE run[<<t[1] + 1, PowerStep(matrix, t[2])>>]
    IN run[<<0, Normalize([i \in DOMAIN start |-> start[i] * VScale])>>]

(* the Rayleigh quotient of a normalized vector, unit 1/VScale *)
Rayleigh(m, v) ==
    Quot(SumSeq[[i \in DOMAIN v |->
                    v[i] * Quot(SumSeq[[j \in DOMAIN v |-> m[i][j] * v[j]]], VScale)]],
         VScale)

(* remainingMatrix[i][j] -= eigenvalue * vector[i] * vector[j] *)
Deflate(m, eigenvalue, v) ==
    [i \in DOMAIN m |-> [j \in DOMAIN m |->
        m[i][j] - Quot(Quot(eigenvalue * v[i], VScale) * v[j], VScale)]]

(* positions of the eigenvalues in the order of sort((a, b) => b.val - a.val): *)
(* the finite values descending, equal ones in extraction order; a comparison  *)
(* with NaN counts as equal, so the NaN values, extracted last, stay last      *)
SortedPairs(eigenvalues) ==
    LET before(a, b) ==
            \/ ~eigenvalues[a].nan /\ eigenvalues[b].nan
            \/ ~eigenvalues[a].nan /\ ~eigenvalues[b].nan /\ eigenvalues[a].v > eigenvalues[b].v
            \/ eigenvalues[a].nan = eigenvalues[b].nan
                   /\ (eigenvalues[a].nan \/ eigenvalues[a].v = eigenvalues[b].v) /\ a < b
        place(a) == 1 + Cardinality({b \in DOMAIN eigenvalues : before(b, a)})
    IN [p \in DOMAIN eigenvalues |-> CHOOSE a \in DOMAIN eigenvalues : place(a) = p]

(* as TotalVariance, summing the greatest eigenvalues only, as many as       *)
(* components are kept                                                       *)
TotalVarianceKept(eigenvalues) ==
    LET kept == {SortedPairs(eigenvalues)[p] :
                    p \in {q \in DOMAIN eigenvalues :
                              q <= (IF numComponents.given /\ numComponents.n # 0
                                    THEN numComponents.n ELSE Len(eigenvalues))}}
    IN IF \E i \in kept : eigenvalues[i].nan THEN NaN
       ELSE Finite(SumSeq[[i \in DOMAIN eigenvalues |->
                              IF i \in kept THEN eigenvalues[i].v ELSE 0]])

(* totalVariance: the sum of the eigenvalues extracted *)
TotalVariance(eigenvalues) ==
    IF \E i \in DOMAIN eigenvalues : eigenvalues[i].nan THEN NaN
    ELSE Finite(SumSeq[[i \in DOMAIN eigenvalues |-> eigenvalues[i].v]])

(* pair.val / totalVariance; unit 1/(Scale * Scale) *)
VarianceRatio(val, totalVariance) ==
    IF val.nan \/ totalVariance.nan \/ totalVariance.v = 0 THEN NaN
    ELSE Finite(Quot(val.v * Scale * Scale, totalVariance.v))

(* as ComponentCount, a given count of 0 being taken as it is *)
ComponentCountAsGiven == IF numComponents.given THEN numComponents.n ELSE Cols

(* const k = numComponents || d *)
ComponentCount == IF numComponents.given /\ numComponents.n # 0 THEN numComponents.n ELSE Cols

(* slice(0, k) for k >= 0 *)
Slice(s, count) == SubSeq(s, 1, IF count < Len(s) THEN count ELSE Len(s))

(* the dot product of a centered row with a component; unit 1/Scale *)
DotProduct(row, component) ==
    IF component.nan \/ Len(row) < Len(component.vec) THEN NaN
    ELSE Finite(Quot(SumSeq[[i \in DOMAIN component.vec |-> row[i] * component.vec[i]]], VScale))

(* as PCAEmpty, with one projected row of no columns for each row of the matrix *)
PCAEmptyRows ==
    /\ pc = "pca"
    /\ Rows = 0 \/ Cols = 0
    /\ pca' = [ready |-> TRUE, projectedData |-> [i \in 1..Rows |-> <<>>],
               explainedVariance |-> <<>>, components |-> <<>>,
               eigenvalues |-> <<>>, multiplications |-> <<>>]
    /\ pc' = "done"
    /\ UNCHANGED <<numComponents, kmVars, silVars, preVars, optVars, uiVars>>

(* the early return on no rows or no columns *)
PCAEmpty ==
    /\ pc = "pca"
    /\ Rows = 0 \/ Cols = 0
    /\ pca' = [ready |-> TRUE, projectedData |-> <<>>, explainedVariance |-> <<>>,
               components |-> <<>>, eigenvalues |-> <<>>, multiplications |-> <<>>]
    /\ pc' = "done"
    /\ UNCHANGED <<numComponents, kmVars, silVars, preVars, optVars, uiVars>>

(* steps 1 to 3: means, centered data, covariance matrix *)
PCACovariance ==
    /\ pc = "pca"
    /\ Rows # 0 /\ Cols # 0
    /\ \E centeredData \in {CenteredData(PCAMeans)} :
          pca' = [ready |-> FALSE,
                  centeredData |-> centeredData,
                  covariance |-> Covariance(centeredData),
                  remainingMatrix |-> Covariance(centeredData),
                  eigenvalues |-> <<>>,
                  eigenvectors |-> <<>>,
                  multiplications |-> <<>>]
    /\ pc' = "eigen"
    /\ UNCHANGED <<numComponents, kmVars, silVars, preVars, optVars, uiVars>>

(* one pass of the loop of computeEigenvectors, which runs d times: random    *)
(* start, power iteration, Rayleigh quotient, deflation                       *)
ExtractComponent ==
    /\ pc = "eigen"
    /\ Len(pca.eigenvalues) < Cols
    /\ \E start \in RandomVectors(Cols) :
       \E found \in {PowerIteration(pca.remainingMatrix, start)} :
       \E eigenvalue \in {IF found.nan THEN NaN
                          ELSE Finite(Rayleigh(pca.remainingMatrix.m, found.vec))} :
          pca' = [pca EXCEPT
                     !.eigenvalues = Append(@, eigenvalue),
                     !.eigenvectors = Append(@, [nan |-> found.nan, vec |-> found.vec]),
                     !.multiplications = Append(@, found.steps),
                     !.remainingMatrix =
                         IF found.nan THEN [nan |-> TRUE, m |-> <<>>]
                         ELSE [nan |-> FALSE,
                               m |-> Deflate(pca.remainingMatrix.m, eigenvalue.v, found.vec)]]
    /\ pc' = "eigen"
    /\ UNCHANGED <<numComponents, kmVars, silVars, preVars, optVars, uiVars>>

(* steps 4 and 5: sort, variance ratios, the top k components, projection *)
PCAProject ==
    /\ pc = "eigen"
    /\ Len(pca.eigenvalues) = Cols
    /\ \E eigenPairs \in {SortedPairs(pca.eigenvalues)} :
       \E components \in {Slice([p \in DOMAIN eigenPairs |-> pca.eigenvectors[eigenPairs[p]]],
                                ComponentCount)} :
          pca' = [ready |-> TRUE,
                  projectedData |->
                      [i \in 1..Rows |-> [c \in DOMAIN components |->
                          DotProduct(pca.centeredData[i], components[c])]],
                  explainedVariance |->
                      Slice([p \in DOMAIN eigenPairs |->
                                VarianceRatio(pca.eigenvalues[eigenPairs[p]],
                                              TotalVariance(pca.eigenvalues))],
                            ComponentCount),
                  components |-> components,
                  eigenvalues |-> pca.eigenvalues,
                  multiplications |-> pca.multiplications]
    /\ pc' = "done"
    /\ UNCHANGED <<numComponents, kmVars, silVars, preVars, optVars, uiVars>>

(* the caller passes any matrix of numbers, and a count or none *)
InitPCA ==
    /\ pc = "pca"
    /\ data \in Matrices \cup RaggedMatrices
    /\ numComponents \in {Unspecified} \cup {Requested(n) : n \in 0..(MaxDim + 1)}
    /\ pca = NoPCA
    /\ opt = NoSweep
    /\ ui = NoUI
    /\ k = 1
    /\ maxIterations = 0
    /\ centroids = <<>>
    /\ labels = <<>>
    /\ iterations = 0
    /\ changed = FALSE
    /\ inertia = 0
    /\ picked = <<>>
    /\ score = 0
    /\ terms = <<>>
    /\ rawData = <<>>
    /\ out = NoOutput

NextPCA == PCAEmpty \/ PCACovariance \/ ExtractComponent \/ PCAProject

SpecPCA == InitPCA /\ [][NextPCA]_vars

----------------------------------------------------------------------------
(* findOptimalK *)

(* maxIterations: number = 100, the default findOptimalK runs performKMeans with *)
DefaultMaxIterations == 100

(* calculateSilhouetteScore(data, ls) as a value *)
calculateSilhouetteScore(ls) ==
    IF Rows < 2 \/ Cardinality(Range(ls)) < 2 THEN 0
    ELSE Quot(SumSeq[SilhouetteTerms(ls)], Rows)

(* s.slice(0, -1).map((val, i) => val - s[i + 1]) *)
Differences(s) == [i \in 1..(Len(s) - 1) |-> s[i] - s[i + 1]]

(* as MaxIndex, an equal value taking the place of the one kept *)
MaxIndexLast(s) ==
    LET scan[t \in Nat \X BOOLEAN \X Int \X Nat] ==
            IF t[1] > Len(s) THEN t[4]
            ELSE IF ~t[2] \/ s[t[1]] >= t[3]
                 THEN scan[<<t[1] + 1, TRUE, s[t[1]], t[1] - 1>>]
                 ELSE scan[<<t[1] + 1, t[2], t[3], t[4]>>]
    IN scan[<<1, FALSE, 0, 0>>]

(* the forEach that keeps the index of the first strictly greater value,    *)
(* starting from -Infinity and index 0; t = <<i, found, maxValue, maxIndex>> *)
MaxIndex(s) ==
    LET scan[t \in Nat \X BOOLEAN \X Int \X Nat] ==
            IF t[1] > Len(s) THEN t[4]
            ELSE IF ~t[2] \/ s[t[1]] > t[3]
                 THEN scan[<<t[1] + 1, TRUE, s[t[1]], t[1] - 1>>]
                 ELSE scan[<<t[1] + 1, t[2], t[3], t[4]>>]
    IN scan[<<1, FALSE, 0, 0>>]

(* as RecommendedK, the elbow being the greatest first difference *)
RecommendedKSlope(scores, method) ==
    IF method = "elbow" THEN MaxIndex(Differences(scores)) + 2
    ELSE MaxIndex(scores) + 2

(* the heuristic: the curvature of the scores, or the greatest score *)
RecommendedK(scores, method) ==
    IF method = "elbow" THEN MaxIndex(Differences(Differences(scores))) + 2
    ELSE MaxIndex(scores) + 2

(* the loop head with k <= maxK: the call performKMeans(data, k) *)
SweepRun ==
    /\ pc = "optimal"
    /\ opt.k <= opt.maxK
    /\ opt' = [opt EXCEPT !.runs = Append(@, opt.k)]
    /\ k' = opt.k
    /\ maxIterations' = DefaultMaxIterations
    /\ centroids' = <<>>
    /\ labels' = <<>>
    /\ iterations' = 0
    /\ changed' = TRUE
    /\ inertia' = 0
    /\ picked' = <<>>
    /\ pc' = "kmeans"
    /\ UNCHANGED <<data, silVars, preVars, pcaVars, uiVars>>

(* as SweepRecord, pushing the inertia whatever the method *)
SweepRecordInertia ==
    /\ pc = "done"
    /\ opt.running
    /\ opt' = [opt EXCEPT !.scores = Append(@, inertia), !.k = @ + 1]
    /\ pc' = "optimal"
    /\ UNCHANGED <<kmVars, silVars, preVars, pcaVars, uiVars>>

(* performKMeans has returned: push the inertia or the silhouette score, k++ *)
SweepRecord ==
    /\ pc = "done"
    /\ opt.running
    /\ opt' = [opt EXCEPT
                  !.scores = Append(@, IF opt.method = "elbow" THEN inertia
                                       ELSE calculateSilhouetteScore(labels)),
                  !.k = @ + 1]
    /\ pc' = "optimal"
    /\ UNCHANGED <<kmVars, silVars, preVars, pcaVars, uiVars>>

(* as SweepReturn, the elbow being placed at the middle one of the three     *)
(* scores of the greatest second difference                                  *)
SweepReturnMiddle ==
    /\ pc = "optimal"
    /\ opt.k > opt.maxK
    /\ opt' = [opt EXCEPT
                  !.running = FALSE,
                  !.ready = TRUE,
                  !.recommendedK = RecommendedK(opt.scores, opt.method)
                                     + (IF opt.method = "elbow" THEN 1 ELSE 0)]
    /\ pc' = "done"
    /\ UNCHANGED <<kmVars, silVars, preVars, pcaVars, uiVars>>

(* the loop is over: recommend a k and return *)
SweepReturn ==
    /\ pc = "optimal"
    /\ opt.k > opt.maxK
    /\ opt' = [opt EXCEPT
                  !.running = FALSE,
                  !.ready = TRUE,
                  !.recommendedK = RecommendedK(opt.scores, opt.method)]
    /\ pc' = "done"
    /\ UNCHANGED <<kmVars, silVars, preVars, pcaVars, uiVars>>

(* the matrices findOptimalK is called with *)
SweepMatrices == UNION {MatricesOf(n, d) : n \in 0..MaxRows, d \in 0..1}

InitSweep ==
    /\ pc = "optimal"
    /\ ui = NoUI
    /\ data \in SweepMatrices
    /\ \E maxK \in 0..MaxSweep : \E method \in {"elbow", "silhouette"} :
          opt = [running |-> TRUE, ready |-> FALSE, maxK |-> maxK, method |-> method,
                 k |-> 2, scores |-> <<>>, runs |-> <<>>, recommendedK |-> 2]
    /\ k = 2
    /\ maxIterations = DefaultMaxIterations
    /\ centroids = <<>>
    /\ labels = <<>>
    /\ iterations = 0
    /\ changed = TRUE
    /\ inertia = 0
    /\ picked = <<>>
    /\ score = 0
    /\ terms = <<>>
    /\ rawData = <<>>
    /\ out = NoOutput
    /\ numComponents = Unspecified
    /\ pca = NoPCA

NextSweep == SweepRun \/ SweepRecord \/ SweepReturn \/ NextKM

SpecSweep == InitSweep /\ [][NextSweep]_vars

----------------------------------------------------------------------------
(* A direct call of standardizeData on a matrix *)

Standardize ==
    /\ pc = "standardize"
    /\ out' = [ready |-> TRUE, call |-> "standardizeData", processed |-> standardizeData(data)]
    /\ pc' = "done"
    /\ UNCHANGED <<rawData, kmVars, silVars, pcaVars, optVars, uiVars>>

InitStd ==
    /\ pc = "standardize"
    /\ data \in Matrices
    /\ out = NoOutput
    /\ rawData = <<>>
    /\ k = 1
    /\ maxIterations = 0
    /\ centroids = <<>>
    /\ labels = <<>>
    /\ iterations = 0
    /\ changed = FALSE
    /\ inertia = 0
    /\ picked = <<>>
    /\ score = 0
    /\ terms = <<>>
    /\ numComponents = Unspecified
    /\ pca = NoPCA
    /\ opt = NoSweep
    /\ ui = NoUI

NextStd == Standardize

SpecStd == InitStd /\ [][NextStd]_vars

----------------------------------------------------------------------------
(* The library: every exported operation, called on its own *)

InitLib == InitPre \/ InitStd \/ InitPCA \/ InitKM \/ InitSil \/ InitSweep

NextLib == NextPre \/ NextStd \/ NextPCA \/ NextSil \/ NextSweep

SpecLib == InitLib /\ [][NextLib]_vars

----------------------------------------------------------------------------
(* Properties of the library *)

(* which call has returned *)
StandardizeReturned == pc = "done" /\ out.ready /\ out.call = "standardizeData"

PCAReturned == pc = "done" /\ pca.ready

SweepReturned == pc = "done" /\ opt.ready

(* performKMeans leaves changed = TRUE or has counted an iteration *)
KMeansReturned ==
    pc = "done" /\ ~out.ready /\ ~pca.ready /\ ~opt.ready /\ (changed \/ iterations > 0)

(* the silhouette call is made with changed = FALSE and counts no iteration *)
SilhouetteCallReturned ==
    pc = "done" /\ ~out.ready /\ ~pca.ready /\ ~opt.ready /\ ~opt.running
        /\ ~changed /\ iterations = 0

(* no rows, or rows of no columns *)
EmptyMatrix == Rows = 0 \/ Cols = 0

(* C11: empty inputs give empty results: preprocessData on no records returns *)
(* an empty matrix and empty feature lists; on a matrix with no rows or no    *)
(* columns standardizeData returns an empty matrix, performPCA empty          *)
(* projectedData, explainedVariance and components, performKMeans empty       *)
(* labels and centroids with inertia 0, calculateSilhouetteScore 0, and       *)
(* findOptimalK runs only the early returns and hands back its scores         *)
C11_EmptyInputs ==
    /\ (Preprocessed /\ rawData = <<>>) =>
           /\ out.processed = <<>>
           /\ out.features = <<>>
           /\ out.numericalFeatures = <<>>
           /\ out.categoricalFeatures = <<>>
           /\ out.survivedColumn = <<>>
    /\ (StandardizeReturned /\ EmptyMatrix) => out.processed = <<>>
    /\ (PCAReturned /\ EmptyMatrix) =>
           /\ pca.projectedData = <<>>
           /\ pca.explainedVariance = <<>>
           /\ pca.components = <<>>
    /\ (KMeansReturned /\ EmptyMatrix) =>
           /\ labels = <<>>
           /\ centroids = <<>>
           /\ inertia = 0
    /\ (SilhouetteCallReturned /\ EmptyMatrix) => score = 0
    /\ (opt.running /\ EmptyMatrix) => pc \in {"optimal", "kmeans", "done"}
    /\ (SweepReturned /\ EmptyMatrix) =>
           /\ Len(opt.scores) = (IF opt.maxK < 2 THEN 0 ELSE opt.maxK - 1)
           /\ \A i \in DOMAIN opt.scores : opt.scores[i] = 0
           /\ opt.recommendedK = 2

(* a matrix of rows without columns has gone through performPCA *)
C11_Witness ==
    /\ PCAReturned
    /\ Rows >= 2
    /\ Cols = 0
    /\ pca.projectedData = <<>>

(* C12: a matrix whose rows differ in length is rejected by performPCA: the  *)
(* call returns no result computed on it                                     *)
C12_RaggedRejected == ~Rectangular(data) => ~pca.ready

(* C13: no operation modifies its input: the matrix handed to performKMeans, *)
(* performPCA, standardizeData, calculateSilhouetteScore or findOptimalK and *)
(* the records handed to preprocessData or oneHotEncodeCategorical are the   *)
(* same after every step, and preprocessData hands the records back as       *)
(* 'original'                                                                *)
C13_InputsUnchanged ==
    [][/\ data' = data
       /\ rawData' = rawData
       /\ numComponents' = numComponents
       /\ (pc' = "done" /\ out'.ready /\ out'.call = "preprocessData")
              => out'.original = rawData]_vars

(* performKMeans has returned with a centroid that left the row it was       *)
(* copied from                                                               *)
C13_Witness ==
    /\ KMeansReturned
    /\ iterations >= 1
    /\ \E c \in 1..Len(centroids) : centroids[c] # Vec(data[picked[c] + 1])

----------------------------------------------------------------------------
(* Properties of findOptimalK *)

(* the number of scores of a sweep up to maxK *)
SweepLength == IF opt.maxK < 2 THEN 0 ELSE opt.maxK - 1

(* the runs started so far are those of k = 2, 3, ... in this order, and one *)
(* more than the scores recorded exactly while a run is under way            *)
RunsInOrder ==
    opt.running =>
        /\ \A i \in DOMAIN opt.runs : opt.runs[i] = i + 1
        /\ Len(opt.runs) <= SweepLength
        /\ Len(opt.runs) = Len(opt.scores) + (IF pc = "optimal" THEN 0 ELSE 1)
        /\ pc # "optimal" => k = Len(opt.scores) + 2

(* the score a returned run leaves: its inertia, or the silhouette score of its labels *)
ScoreOfRun ==
    IF opt.method = "elbow" THEN Inertia(labels, centroids)
    ELSE IF Rows < 2 \/ Cardinality(Range(labels)) < 2 THEN 0
    ELSE Quot(SumSeq[SilhouetteTerms(labels)], Rows)

(* C14: findOptimalK runs performKMeans once for each k = 2..maxK in         *)
(* increasing order; the run with k = i + 2 leaves its inertia (elbow) or    *)
(* its silhouette score (silhouette) as entry i of scores, and the scores    *)
(* returned are these maxK - 1 entries (none when maxK < 2)                  *)
C14_SweepScores ==
    /\ [](RunsInOrder /\ (SweepReturned =>
              /\ Len(opt.scores) = SweepLength
              /\ opt.runs = [i \in 1..SweepLength |-> i + 1]))
    /\ [][(pc = "done" /\ opt.running) =>
              /\ k = Len(opt.scores) + 2
              /\ opt'.scores = Append(opt.scores, IF EmptyMatrix THEN 0 ELSE ScoreOfRun)]_vars
    /\ [][opt.ready => opt'.scores = opt.scores]_vars

(* a silhouette sweep up to the greatest maxK has returned scores that differ *)
C14_Witness ==
    /\ SweepReturned
    /\ opt.maxK = MaxSweep
    /\ opt.method = "silhouette"
    /\ \E i, j \in DOMAIN opt.scores : opt.scores[i] # opt.scores[j]

FirstDifference(i) == opt.scores[i] - opt.scores[i + 1]

(* second differences s[i] = d[i] - d[i+1] *)
SecondDifference(i) == FirstDifference(i) - FirstDifference(i + 1)

(* C16: with method elbow and at least three scores, recommendedK = i* + 2   *)
(* where i* is the first index (from 0) that maximizes the second difference *)
(* s[i] = d[i] - d[i+1] of the first differences d[i] = scores[i] - scores[i+1] *)
C16_ElbowChoice ==
    (SweepReturned /\ opt.method = "elbow" /\ Len(opt.scores) >= 3) =>
        LET last == Len(opt.scores) - 2
            best == opt.recommendedK - 1
        IN /\ best \in 1..last
           /\ \A i \in 1..last : SecondDifference(i) <= SecondDifference(best)
           /\ \A i \in 1..(best - 1) : SecondDifference(i) < SecondDifference(best)

(* two second differences, the second one the greater *)
C16_Witness ==
    /\ SweepReturned
    /\ opt.method = "elbow"
    /\ Len(opt.scores) >= 4
    /\ opt.recommendedK = 3
    /\ SecondDifference(1) < SecondDifference(2)

----------------------------------------------------------------------------
(* Properties of performPCA *)

(* a matrix of numbers with at least one row and one column *)
ProperMatrix == Rectangular(data) /\ Rows >= 1 /\ Cols >= 1

(* the results have count components *)
PCAShape(count) ==
    /\ Len(pca.projectedData) = Rows
    /\ \A i \in 1..Rows : Len(pca.projectedData[i]) = count
    /\ Len(pca.explainedVariance) = count
    /\ Len(pca.components) = count
    /\ \A c \in DOMAIN pca.components : Len(pca.components[c].vec) = Cols

(* C17 as claimed: for every requested count k the results have k            *)
(* components, and d when no count is given                                  *)
C17_ShapeAsClaimed ==
    (PCAReturned /\ ProperMatrix) =>
        PCAShape(IF numComponents.given THEN numComponents.n ELSE Cols)

(* C17: the results have k components for a requested k in 1..d, and d       *)
(* components when no count is given or the count is 0 or greater than d:    *)
(* projectedData has n rows of that many columns, explainedVariance that     *)
(* many ratios, components that many vectors of length d                     *)
C17_Shape ==
    (PCAReturned /\ ProperMatrix) =>
        PCAShape(IF numComponents.given /\ numComponents.n \in 1..Cols
                 THEN numComponents.n ELSE Cols)

(* one of two components was requested and returned *)
C17_Witness ==
    /\ PCAReturned
    /\ ProperMatrix
    /\ Rows >= 2
    /\ Cols = 2
    /\ numComponents = Requested(1)
    /\ Len(pca.components) = 1
    /\ ~pca.components[1].nan

(* the sum of the returned ratios, unit 1/(Scale * Scale) *)
RatioSum == SumSeq[[i \in DOMAIN pca.explainedVariance |-> pca.explainedVariance[i].v]]

(* each quotient is cut off at four decimal digits *)
RatioTolerance == Len(pca.explainedVariance)

(* C18: on every matrix with rows and columns the returned ratios are        *)
(* numbers; those of a full run (k = d) sum to 1, those of a run with k < d  *)
(* to at most 1                                                              *)
C18_RatiosSumToOne ==
    (PCAReturned /\ ProperMatrix) =>
        /\ \A i \in DOMAIN pca.explainedVariance : ~pca.explainedVariance[i].nan
        /\ RatioSum <= Scale * Scale + RatioTolerance
        /\ Len(pca.explainedVariance) = Cols => RatioSum >= Scale * Scale - RatioTolerance

----------------------------------------------------------------------------
(* Properties of standardizeData *)

ConstantColumn(j) == \A i \in 1..Rows : data[i][j] = data[1][j]

(* Rows times the mean of output column j, unit 1/Scale *)
ProcessedSum(j) == SumSeq[[i \in 1..Rows |-> out.processed[i][j]]]

(* the population standard deviation of output column j, unit 1/Scale *)
ProcessedDeviation(j) ==
    ISqrt(SumSeq[[i \in 1..Rows |->
                    (out.processed[i][j] * Rows - ProcessedSum(j))
                  * (out.processed[i][j] * Rows - ProcessedSum(j))]]
          \div (Rows * Rows * Rows))

(* the rounding of the fixed point: means, deviations and quotients are      *)
(* cut off at two decimal digits                                             *)
MeanTolerance == Scale \div 50

DeviationTolerance == (3 * Scale) \div 100

----------------------------------------------------------------------------
(* Properties of the update step of performKMeans *)

(* the rows labelled c (0-based) *)
Members(c) == {i \in 1..Rows : labels[i] = c}

(* the sum of coordinate j over the rows labelled c *)
MemberSum(c, j) == SumSeq[[i \in 1..Rows |-> IF labels[i] = c THEN data[i][j] ELSE 0]]

(* C20: in every update step a centroid whose cluster received no point      *)
(* keeps its previous value, and a centroid whose cluster received points    *)
(* becomes their coordinate-wise mean                                        *)
C20_UpdateStep ==
    [][pc = "update" =>
          /\ Len(centroids') = Len(centroids)
          /\ \A c \in 1..k :
                IF Members(c - 1) = {}
                THEN centroids'[c] = centroids[c]
                ELSE /\ Len(centroids'[c].num) = Cols
                     /\ \A j \in 1..Cols :
                           centroids'[c].num[j] * Cardinality(Members(c - 1))
                               = MemberSum(c - 1, j) * centroids'[c].den]_vars

(* after an update: an empty cluster whose centroid is still its seed row,   *)
(* beside a cluster of several rows whose centroid has moved off its seed    *)
C20_Witness ==
    /\ pc = "loop"
    /\ iterations >= 1
    /\ \E c \in 1..k :
          /\ Members(c - 1) = {}
          /\ centroids[c] = Vec(data[picked[c] + 1])
    /\ \E c \in 1..k :
          /\ Cardinality(Members(c - 1)) >= 2
          /\ centroids[c].den >= 2
          /\ centroids[c] # Vec(data[picked[c] + 1])

----------------------------------------------------------------------------
(* Properties of the assign step and of the returned inertia *)

(* centroid c (1-based) is at minimal distance of row i *)
Closest(i, c) ==
    \A other \in 1..k : ~DistLess(DistTo(i, other - 1), DistTo(i, c - 1))

(* C21: in every assign step each point gets the label of a centroid at      *)
(* minimal Euclidean distance, the lowest index among those at that distance *)
C21_AssignStep ==
    [][(pc = "loop" /\ pc' = "update") =>
          /\ Len(labels') = Rows
          /\ \A i \in 1..Rows :
                /\ labels'[i] \in 0..(k - 1)
                /\ Closest(i, labels'[i] + 1)
                /\ \A c \in 1..k : Closest(i, c) => labels'[i] + 1 <= c]_vars

(* after an assign step: a row at the same minimal distance of two           *)
(* different centroids carries the label of the lower one                    *)
C21_Witness ==
    /\ pc = "update"
    /\ \E i \in 1..Rows : \E c1, c2 \in 1..k :
          /\ c1 < c2
          /\ centroids[c1] # centroids[c2]
          /\ Closest(i, c1)
          /\ Closest(i, c2)
          /\ DistLess([num |-> 0, den |-> 1], DistTo(i, c1 - 1))
          /\ labels[i] = c1 - 1

C27_CentroidsMatchLabels ==
    (Returned /\ iterations >= 1) =>
        \A c \in 1..k :
            Members(c - 1) # {} =>
                \A j \in 1..Cols :
                    centroids[c].num[j] * Cardinality(Members(c - 1))
                        = MemberSum(c - 1, j) * centroids[c].den

(* a returned run of several iterations with two clusters of points, one of  *)
(* several points *)
C27_Witness ==
    /\ Returned
    /\ iterations >= 2
    /\ \E c1, c2 \in 1..k :
          /\ c1 # c2
          /\ Cardinality(Members(c1 - 1)) >= 2
          /\ Members(c2 - 1) # {}
          /\ centroids[c1] # Vec(data[picked[c1] + 1])

----------------------------------------------------------------------------
(* Properties of the eigenpair extraction of performPCA *)

(* the eigenvalue in place p of the descending order *)
RankedEigenvalue(p) == pca.eigenvalues[SortedPairs(pca.eigenvalues)[p]]

(* the sum of the eigenvalues in places 1..count of the descending order *)
SumOfRanked(count) ==
    IF \E p \in 1..count : RankedEigenvalue(p).nan THEN NaN
    ELSE Finite(SumSeq[[p \in 1..count |-> RankedEigenvalue(p).v]])

(* the returned ratios are the greatest eigenvalues over denominator *)
RatiosOver(denominator) ==
    \A p \in DOMAIN pca.explainedVariance :
        pca.explainedVariance[p] = VarianceRatio(RankedEigenvalue(p), denominator)

(* C23 as claimed: as many eigenpairs are extracted as components are        *)
(* returned, and the denominator of the ratios is the sum of their           *)
(* eigenvalues                                                               *)
C23_ExtractsRequested ==
    (PCAReturned /\ ProperMatrix) =>
        /\ Len(pca.eigenvalues) = Len(pca.components)
        /\ Len(pca.eigenvalues) <= Cols => RatiosOver(SumOfRanked(Len(pca.components)))

(* C23: whatever count is requested, performPCA extracts d eigenpairs, each  *)
(* by 30 multiply-and-renormalize steps followed by one deflation, and the   *)
(* denominator of the ratios is the sum of all d eigenvalues; the requested  *)
(* count only selects how many of the greatest are returned                  *)
C23_ExtractsAll ==
    /\ []((PCAReturned /\ ProperMatrix) =>
            /\ Len(pca.eigenvalues) = Cols
            /\ \A c \in 1..Cols : pca.multiplications[c] = PowerIterations
            /\ RatiosOver(SumOfRanked(Cols)))
    /\ [][(pc = "eigen" /\ pc' = "eigen") =>
            /\ Len(pca'.eigenvalues) = Len(pca.eigenvalues) + 1
            /\ Len(pca'.eigenvectors) = Len(pca'.eigenvalues)
            /\ Len(pca'.multiplications) = Len(pca.multiplications) + 1
            /\ pca'.multiplications[Len(pca'.multiplications)] = PowerIterations
            /\ LET e == pca'.eigenvalues[Len(pca'.eigenvalues)]
                   v == pca'.eigenvectors[Len(pca'.eigenvectors)]
               IN ~e.nan =>
                     /\ ~pca'.remainingMatrix.nan
                     /\ \A i, j \in 1..Cols :
                           pca'.remainingMatrix.m[i][j] =
                               pca.remainingMatrix.m[i][j]
                                 - Quot(Quot(e.v * v.vec[i], VScale) * v.vec[j], VScale)]_vars

(* one component of two was requested: two eigenpairs were extracted, and    *)
(* the second eigenvalue counts in the denominator                           *)
C23_Witness ==
    /\ PCAReturned
    /\ ProperMatrix
    /\ Cols = 2
    /\ numComponents = Requested(1)
    /\ Len(pca.components) = 1
    /\ Len(pca.eigenvalues) = 2
    /\ ~pca.eigenvalues[1].nan
    /\ ~pca.eigenvalues[2].nan
    /\ RankedEigenvalue(2).v # 0
    /\ ~pca.explainedVariance[1].nan

----------------------------------------------------------------------------
(* Properties of the schema of oneHotEncodeCategorical *)

(* the numerical columns the encoder finds in its input *)
EncoderNumerical == identifyFeatureTypes(out.input).numericalFeatures

(* the values observed in categorical column c of the encoder's input *)
ObservedValues(c) ==
    {Get(out.input[i], out.categoricalFeatures[c]) : i \in 1..Len(out.input)}
        \ {Null, Undefined, Str("")}

(* the first row that holds value in categorical column c *)
FirstSeen(c, value) ==
    SetMin({i \in 1..Len(out.input) :
               Get(out.input[i], out.categoricalFeatures[c]) = value})

(* the place of value among the values of column c, in first-seen order *)
SeenRank(c, value) ==
    Cardinality({w \in ObservedValues(c) : FirstSeen(c, w) <= FirstSeen(c, value)})

(* the columns before the block of categorical column c *)
BlockStart(c) ==
    Len(EncoderNumerical)
        + SumSeq[[b \in 1..(c - 1) |-> Cardinality(ObservedValues(b))]]

(* C24: the schema lists the numerical columns first, in discovery order,    *)
(* then for each categorical column in the given order one column per        *)
(* distinct observed value in first-seen order; it is as long as every       *)
(* matrix row, and position j names matrix column j                          *)
C24_Schema ==
    Encoded =>
        /\ Len(out.features) = BlockStart(Len(out.categoricalFeatures) + 1)
        /\ \A i \in 1..Len(out.encodedData) : Len(out.encodedData[i]) = Len(out.features)
        /\ EncoderNumerical =
               IF Len(out.input) = 0 THEN <<>>
               ELSE SelectSeq(KeysOf(out.input[1]),
                              LAMBDA f : f \notin excludeFeatures /\ IsNumber(out.input[1][f]))
        /\ \A j \in 1..Len(EncoderNumerical) :
              /\ out.features[j] = <<EncoderNumerical[j]>>
              /\ \A i \in 1..Len(out.input) :
                    out.encodedData[i][j] = NumberCell(Get(out.input[i], EncoderNumerical[j]))
        /\ \A c \in 1..Len(out.categoricalFeatures) :
              \A value \in ObservedValues(c) :
                 /\ BlockStart(c) + SeenRank(c, value) <= Len(out.features)
                 /\ out.features[BlockStart(c) + SeenRank(c, value)]
                        = <<out.categoricalFeatures[c], StringOf(value)>>
                 /\ \A i \in 1..Len(out.input) :
                       out.encodedData[i][BlockStart(c) + SeenRank(c, value)]
                           = IF Get(out.input[i], out.categoricalFeatures[c]) = value
                             THEN 1 ELSE 0

(* an encoded dataset with numerical columns and a categorical column whose  *)
(* values were first seen in the order 3, 1                                  *)
C24_Witness ==
    /\ Encoded
    /\ Len(EncoderNumerical) >= 2
    /\ \E c \in 1..Len(out.categoricalFeatures) :
          /\ {Num(1), Num(3)} \subseteq ObservedValues(c)
          /\ FirstSeen(c, Num(3)) < FirstSeen(c, Num(1))
          /\ \E j \in 2..Len(out.features) :
                /\ out.features[j - 1] = <<out.categoricalFeatures[c], "3">>
                /\ out.features[j] = <<out.categoricalFeatures[c], "1">>

----------------------------------------------------------------------------
(* Properties of engineerFeatures and of the imputer's mode *)

(* the records after engineerFeatures and separateFeatures, before imputation *)
EngineeredRecords == IF out.call = "preprocessData" THEN out.separated ELSE out.input

(* C25: the records of a dataset share one key set after engineerFeatures,   *)
(* also when some records have a name and others an empty one (the outcome   *)
(* key, which every record of the input has, is taken off all of them)       *)
C25_SameKeySet ==
    Encoded =>
        \A i, j \in 1..Len(EngineeredRecords) :
            DOMAIN EngineeredRecords[i] = DOMAIN EngineeredRecords[j]

(* the non-blank cells of a column before imputation, as property names *)
ObservedNames(f) ==
    LET cells == SelectSeq(Column(out.separated, f), LAMBDA v : ~IsBlank(v))
    IN [i \in 1..Len(cells) |-> StringOf(cells[i])]

(* x is counted most often, and is the first encountered of the names        *)
(* counted that often                                                        *)
FirstMostFrequent(f, x) ==
    LET observed == ObservedNames(f)
        first(y) == SetMin({i \in DOMAIN observed : observed[i] = y})
    IN /\ x \in Range(observed)
       /\ \A y \in Range(observed) :
             \/ Occurrences(observed, y) < Occurrences(observed, x)
             \/ Occurrences(observed, y) = Occurrences(observed, x) /\ first(x) <= first(y)

(* C26: the fill value of a categorical column is its most frequent          *)
(* observed value, the first encountered in row order among those counted    *)
(* equally often (also for 3 seen before 1), and '' without observation      *)
C26_ModeFirstEncountered ==
    Preprocessed =>
        \A f \in Range(out.categoricalFeatures) :
            \A i \in 1..Len(out.separated) :
                IsBlank(Get(out.separated[i], f)) =>
                    /\ out.input[i][f].t = "str"
                    /\ IF ObservedNames(f) = <<>> THEN out.input[i][f].s = ""
                       ELSE FirstMostFrequent(f, out.input[i][f].s)

----------------------------------------------------------------------------
(* The range of the elbow recommendation *)

(* C28: with method elbow, recommendedK lies in 2..maxK-2 when maxK >= 4,    *)
(* and is 2 when there are fewer than three scores (maxK < 4)                *)
C28_ElbowRange ==
    (SweepReturned /\ opt.method = "elbow") =>
        IF opt.maxK >= 4
        THEN opt.recommendedK \in 2..(opt.maxK - 2)
        ELSE Len(opt.scores) < 3 /\ opt.recommendedK = 2

(* the recommendation at the upper end of its range *)
C28_Witness ==
    /\ SweepReturned
    /\ opt.method = "elbow"
    /\ opt.maxK >= 5
    /\ opt.recommendedK = opt.maxK - 2
    /\ \E i \in DOMAIN opt.scores : opt.scores[i] # 0

----------------------------------------------------------------------------
(* The page: Index with its DataPreprocessing component *)

(* the progress each await simulateProgress(target) of handleStartProcessing *)
(* waits for                                                                 *)
ProgressTargets == <<20, 40, 60, 80>>

(* the files a user loads: one record each *)
Uploads == {ds \in Datasets : Len(ds) = 1}

(* Index.handleDataLoaded: the upload component hands over parsed records.   *)
(* Clearing processedData unmounts PCAAnalysis, whose state starts afresh.   *)
handleDataLoaded ==
    /\ pc = "page"
    /\ \E loaded \in Uploads :
          ui' = [ui EXCEPT !.rawData = loaded,
                           !.processedData = NoOutput,
                           !.hasRunPCA = FALSE,
                           !.explainedVariance = <<>>]
    /\ UNCHANGED <<pc, kmVars, silVars, preVars, pcaVars, optVars>>

(* DataPreprocessing.handleStartProcessing up to its first await; the button *)
(* is disabled while a run is in progress or there is no record.  The run    *)
(* keeps the data prop of the render it was started in.                      *)
handleStartProcessing ==
    /\ pc = "page"
    /\ ~ui.isProcessing
    /\ Len(ui.rawData) # 0
    /\ ui' = [ui EXCEPT !.isProcessing = TRUE,
                        !.progress = 0,
                        !.step = 1,
                        !.captured = ui.rawData]
    /\ UNCHANGED <<pc, kmVars, silVars, preVars, pcaVars, optVars>>

(* one tick of the interval of simulateProgress below its target *)
ProgressTick ==
    /\ pc = "page"
    /\ ui.isProcessing
    /\ ui.progress < ProgressTargets[ui.step]
    /\ ui' = [ui EXCEPT !.progress = @ + 1]
    /\ UNCHANGED <<pc, kmVars, silVars, preVars, pcaVars, optVars>>

(* the tick that finds the target reached resolves the promise; the run      *)
(* goes on to its next await                                                 *)
ProgressResolve ==
    /\ pc = "page"
    /\ ui.isProcessing
    /\ ui.step < Len(ProgressTargets)
    /\ ui.progress >= ProgressTargets[ui.step]
    /\ ui' = [ui EXCEPT !.progress = ProgressTargets[ui.step], !.step = @ + 1]
    /\ UNCHANGED <<pc, kmVars, silVars, preVars, pcaVars, optVars>>

(* as ProcessingComplete, the result of a run whose data is no longer the    *)
(* loaded data being dropped                                                 *)
ProcessingCompleteIfCurrent ==
    /\ pc = "page"
    /\ ui.isProcessing
    /\ ui.step = Len(ProgressTargets)
    /\ ui.progress >= ProgressTargets[ui.step]
    /\ \E processedData \in {preprocessData(ui.captured)} :
          ui' = [ui EXCEPT !.result = processedData,
                           !.progress = 100,
                           !.processedData = IF ui.captured = ui.rawData
                                             THEN processedData ELSE @,
                           !.isProcessing = FALSE,
                           !.step = 0]
    /\ UNCHANGED <<pc, kmVars, silVars, preVars, pcaVars, optVars>>

(* the last await resolves: preprocessData(data) on the data of the run,     *)
(* setResult, onProcessingComplete (Index.handleProcessingComplete), finally *)
ProcessingComplete ==
    /\ pc = "page"
    /\ ui.isProcessing
    /\ ui.step = Len(ProgressTargets)
    /\ ui.progress >= ProgressTargets[ui.step]
    /\ \E processedData \in {preprocessData(ui.captured)} :
          ui' = [ui EXCEPT !.result = processedData,
                           !.progress = 100,
                           !.processedData = processedData,
                           !.isProcessing = FALSE,
                           !.step = 0]
    /\ UNCHANGED <<pc, kmVars, silVars, preVars, pcaVars, optVars>>

InitPage ==
    /\ pc = "page"
    /\ ui = NoUI
    /\ rawData = <<>>
    /\ out = NoOutput
    /\ data = <<>>
    /\ labels = <<>>
    /\ k = 1
    /\ maxIterations = 0
    /\ centroids = <<>>
    /\ iterations = 0
    /\ changed = FALSE
    /\ inertia = 0
    /\ picked = <<>>
    /\ score = 0
    /\ terms = <<>>
    /\ numComponents = Unspecified
    /\ pca = NoPCA
    /\ opt = NoSweep

NextPage ==
    \/ handleDataLoaded
    \/ handleStartProcessing
    \/ ProgressTick
    \/ ProgressResolve
    \/ ProcessingComplete

SpecPage == InitPage /\ [][NextPage]_vars

(* C29: whenever Index holds processed data, its 'original' records are the  *)
(* loaded records: a run started on an earlier dataset never installs its    *)
(* result after a newer dataset was loaded                                   *)
C29_ProcessedMatchesLoaded ==
    ui.processedData.ready => ui.processedData.original = ui.rawData

----------------------------------------------------------------------------
(* The page: the first run of PCAAnalysis *)

(* a + b on numbers that may be NaN *)
Plus(a, b) == IF a.nan \/ b.nan THEN NaN ELSE Finite(a.v + b.v)

(* explainedVariance[idx - 1]?.cumulative || 0, read from the state of the   *)
(* component; idx counts from 1 here                                         *)
PreviousCumulative(state, idx) ==
    IF idx > 1 /\ (idx - 1) \in DOMAIN state
              /\ ~state[idx - 1].cumulative.nan /\ state[idx - 1].cumulative.v # 0
    THEN state[idx - 1].cumulative
    ELSE Finite(0)

(* as VarianceData, the previous entry being read from the series under      *)
(* construction                                                              *)
VarianceDataRunning(varianceRatios, state) ==
    LET build[idx \in 0..Len(varianceRatios)] ==
            IF idx = 0 THEN <<>>
            ELSE Append(build[idx - 1],
                        [component |-> idx,
                         variance |-> varianceRatios[idx],
                         cumulative |-> Plus(PreviousCumulative(build[idx - 1], idx),
                                             varianceRatios[idx])])
    IN build[Len(varianceRatios)]

(* varianceRatios.map((variance, idx) => ...): the series of the chart *)
VarianceData(varianceRatios, state) ==
    [idx \in 1..Len(varianceRatios) |->
        [component |-> idx,
         variance |-> varianceRatios[idx],
         cumulative |-> Plus(PreviousCumulative(state, idx), varianceRatios[idx])]]

(* the effect of PCAAnalysis once performPCA(processedData.processed) has    *)
(* returned: it runs once per mounted component and stores the series        *)
VarianceSeries ==
    /\ pc = "done"
    /\ pca.ready
    /\ ~ui.hasRunPCA
    /\ ui' = [ui EXCEPT !.hasRunPCA = TRUE,
                        !.explainedVariance =
                            VarianceData(pca.explainedVariance, ui.explainedVariance)]
    /\ UNCHANGED <<pc, kmVars, silVars, preVars, pcaVars, optVars>>

(* the component is mounted with processed data of at least one row; the     *)
(* first call of performPCA names no component count                         *)
InitView ==
    /\ InitPCA
    /\ data \in Matrices
    /\ Rows >= 1
    /\ Cols >= 1
    /\ numComponents = Unspecified

NextView == PCACovariance \/ ExtractComponent \/ PCAProject \/ VarianceSeries

SpecView == InitView /\ [][NextView]_vars

(* ratio[1] + ... + ratio[i] *)
RunningSum(i) ==
    IF \E j \in 1..i : pca.explainedVariance[j].nan THEN NaN
    ELSE Finite(SumSeq[[j \in 1..i |-> pca.explainedVariance[j].v]])

(* C30: the cumulative series PCAAnalysis builds after its first PCA run is  *)
(* the running sum of the variance ratios, so it is non-decreasing and ends  *)
(* at the sum of all ratios                                                  *)
C30_CumulativeIsRunningSum ==
    ui.hasRunPCA =>
        /\ Len(ui.explainedVariance) = Len(pca.explainedVariance)
        /\ \A i \in DOMAIN ui.explainedVariance :
              /\ ui.explainedVariance[i].variance = pca.explainedVariance[i]
              /\ ui.explainedVariance[i].cumulative = RunningSum(i)

====
